---- MODULE Spec2Model ----
(***************************************************************************)
(* ArcaneQuest front end: scanner (scanner.py), recursive-descent parser   *)
(* and semantic analyser (parser.py), modelled as one pipeline             *)
(*     source text -> scan_source -> tokens -> parse -> (root, errors).    *)
(*                                                                         *)
(* Representation.  A text is a sequence of one-character strings.  A      *)
(* token is the dictionary of make_token.  A Node is a record with the     *)
(* fields of class Node; an optional value (Python None) is the empty      *)
(* sequence and a present value v is <<v>>; a missing line number is       *)
(* NoLine; a missing type is NoneT.                                        *)
(***************************************************************************)
EXTENDS Integers, Sequences, FiniteSets, TLC

VARIABLES input,         \* how the source text was generated (ghost)
          source_text,   \* the text handed to scan_source
          pc,            \* position in the pipeline
          lines,         \* scan_source: lines still to be tokenized
          tokens,        \* scan_source: tokens emitted so far
          indent_stack,  \* scan_source: indentation levels, bottom first
          indent_unit,   \* scan_source: first indent increase, NoUnit before
          line_no,       \* scan_source: number of the line last read
          state,         \* parse: the ParserState
          root,          \* parse: the Program node
          semantic_errors, \* parse: the diagnostics of the semantic pass
          all_errors,    \* parse: the diagnostics returned
          outcome        \* "running", "returned" or "raised" (exception out of parse)

vars == <<input, source_text, pc, lines, tokens, indent_stack, indent_unit,
          line_no, state, root, semantic_errors, all_errors, outcome>>

-----------------------------------------------------------------------------
(* Text helpers: Python str operations on sequences of characters.         *)

\* s[n:]
Drop(s, n) == IF n >= Len(s) THEN <<>> ELSE SubSeq(s, n + 1, Len(s))

\* s[:n]
Take(s, n) == IF n >= Len(s) THEN s ELSE SubSeq(s, 1, n)

\* s.startswith(p)
StartsWith(s, p) == Len(s) >= Len(p) /\ SubSeq(s, 1, Len(p)) = p

\* the least element of a non-empty set of integers
Min(S) == CHOOSE k \in S : \A j \in S : k <= j

\* s.find(p, start): lowest 0-based index >= start where p occurs, else -1
Find(s, p, start) ==
    LET hits == {k \in start..(Len(s) - Len(p)) : SubSeq(s, k + 1, k + Len(p)) = p}
    IN IF hits = {} THEN -1 ELSE Min(hits)

RECURSIVE Join(_)
\* "".join(chars): the text as one string (by halves, to keep the
\* evaluation shallow)
Join(s) ==
    IF s = <<>> THEN ""
    ELSE IF Len(s) = 1 THEN s[1]
    ELSE Join(SubSeq(s, 1, Len(s) \div 2)) \o Join(SubSeq(s, Len(s) \div 2 + 1, Len(s)))

RECURSIVE JoinLines(_)
\* " ".join(list of lines)
JoinLines(ls) ==
    IF ls = <<>> THEN <<>>
    ELSE IF Len(ls) = 1 THEN ls[1]
    ELSE ls[1] \o <<" ">> \o JoinLines(Tail(ls))

Digits == {"0", "1", "2", "3", "4", "5", "6", "7", "8", "9"}

Letters == {"a", "b", "c", "d", "e", "f", "g", "h", "i", "j", "k", "l", "m",
            "n", "o", "p", "q", "r", "s", "t", "u", "v", "w", "x", "y", "z",
            "A", "B", "C", "D", "E", "F", "G", "H", "I", "J", "K", "L", "M",
            "N", "O", "P", "Q", "R", "S", "T", "U", "V", "W", "X", "Y", "Z"}

\* str.isspace() on the characters a line can hold
IsSpace(c) == c \in {" ", "\t"}

\* source_text.splitlines(), for texts whose only line boundary is "\n":
\* the pieces between line breaks, without a last empty piece
splitlines(t) ==
    LET brk == {k \in 1..Len(t) : t[k] = "\n"}
        \* position of the n-th line break; 0 before the text, Len + 1 after it
        at(n) == IF n = 0 THEN 0
                 ELSE IF n > Cardinality(brk) THEN Len(t) + 1
                 ELSE CHOOSE k \in brk : Cardinality({j \in brk : j < k}) = n - 1
        count == IF t # <<>> /\ t[Len(t)] # "\n" THEN Cardinality(brk) + 1 ELSE Cardinality(brk)
    IN [n \in 1..count |-> SubSeq(t, at(n - 1) + 1, at(n) - 1)]

\* s.rstrip(chars)
RStrip(s, chars) ==
    LET keep == {k \in 1..Len(s) : s[k] \notin chars}
    IN IF keep = {} THEN <<>> ELSE SubSeq(s, 1, CHOOSE k \in keep : \A j \in keep : j <= k)

\* s.lstrip(chars)
LStrip(s, chars) ==
    LET keep == {k \in 1..Len(s) : s[k] \notin chars}
    IN IF keep = {} THEN <<>> ELSE SubSeq(s, CHOOSE k \in keep : \A j \in keep : k <= j, Len(s))

\* s.strip() with the whitespace characters of the model
Strip(s) == RStrip(LStrip(s, {" ", "\t", "\n", "\r"}), {" ", "\t", "\n", "\r"})

-----------------------------------------------------------------------------
(* scanner.py: tables                                                      *)

KEYWORDS == {"summon", "quest", "reward", "attack", "scout", "spot", "dodge",
             "counter", "replay", "farm", "guild", "embark", "gameOver",
             "savePoint", "skipEncounter", "escapeDungeon"}

DATATYPES == {"potion", "elixir", "fate", "scroll"}

BUILTIN_LITERALS == {"true", "false"}

OPERATORS == {"and", "or", "not"}

MULTI_CHAR_OPS == {<<"*", "*">>, <<"<", "=">>, <<">", "=">>, <<"=", "=">>,
                   <<"!", "=">>, <<"+", "=">>, <<"-", "=">>, <<"*", "=">>,
                   <<"/", "=">>, <<"%", "=">>, <<"/", "/">>}

SINGLE_CHAR_PUNCT == {"(", ")", "{", "}", "[", "]", ":", ",", ".",
                      "+", "-", "*", "/", "%", "<", ">", "=", "!", "~"}

TOKEN_EOF == "EOF"
TOKEN_NEWLINE == "NEWLINE"
TOKEN_INDENT == "INDENT"
TOKEN_DEDENT == "DEDENT"
TOKEN_COMMENT == "COMMENT"
TOKEN_KEYWORD == "KEYWORD"
TOKEN_DATATYPE == "DATATYPE"
TOKEN_LITERAL == "LITERAL"
TOKEN_IDENTIFIER == "IDENTIFIER"
TOKEN_NUMBER == "NUMBER"
TOKEN_STRING == "STRING"
TOKEN_OPERATOR == "OPERATOR"
TOKEN_PUNCT == "PUNCT"
TOKEN_UNKNOWN == "UNKNOWN"

make_token(token_type, value, line_number, column) ==
    [type |-> token_type, value |-> value, lineno |-> line_number, col |-> column]

\* indent_unit = None
NoUnit == 0

\* lexemes of the two indentation diagnostics
MsgInconsistent(unit) ==
    "IndentationError: inconsistent indent (expected multiple of " \o ToString(unit) \o " spaces)"

MsgUnindent == "IndentationError: unindent does not match any outer indentation level"

-----------------------------------------------------------------------------
(* scanner.py: regular expressions, as the length of the match (0: none)   *)

\* length of the longest prefix of s made of characters of set
SpanWhile(s, set) ==
    LET stops == {k \in 1..Len(s) : s[k] \notin set}
    IN IF stops = {} THEN Len(s) ELSE Min(stops) - 1

\* _RE_WS = ^[ \t]+
MatchWS(s) == SpanWhile(s, {" ", "\t"})

\* _RE_NUMBER = ^\d+(?:\.\d+)?
MatchNumber(s) ==
    LET n == SpanWhile(s, Digits)
        rest == Drop(s, n)
        frac == IF rest # <<>> /\ rest[1] = "." THEN SpanWhile(Tail(rest), Digits) ELSE 0
    IN IF n = 0 THEN 0 ELSE IF frac > 0 THEN n + 1 + frac ELSE n

\* _RE_IDENTIFIER = ^[A-Za-z_][A-Za-z0-9_]*
MatchIdentifier(s) ==
    IF s # <<>> /\ s[1] \in Letters \cup {"_"}
    THEN 1 + SpanWhile(Tail(s), Letters \cup Digits \cup {"_"})
    ELSE 0

RECURSIVE StringBody(_, _, _)
\* the body (?:[^q\\]|\\.)*q of a quoted literal, from 0-based position pos
StringBody(s, q, pos) ==
    IF pos >= Len(s) THEN 0
    ELSE IF s[pos + 1] = q THEN pos + 1
    ELSE IF s[pos + 1] = "\\"
         THEN (IF pos + 1 >= Len(s) THEN 0 ELSE StringBody(s, q, pos + 2))
    ELSE StringBody(s, q, pos + 1)

\* _RE_STRING = ^"(?:[^"\\]|\\.)*"   and   _RE_STRING_SINGLE with '
MatchString(s, q) == IF s # <<>> /\ s[1] = q THEN StringBody(s, q, 1) ELSE 0

-----------------------------------------------------------------------------
(* scan_source, first pass: lines of a multi-line triple-quoted string are *)
(* merged into one line                                                    *)

TripleDouble == <<"\"", "\"", "\"">>
TripleSingle == <<"'", "'", "'">>

RECURSIVE ClosingLine(_, _, _)
\* inner while loop: 0-based index of the first line from i on that holds
\* quote, or len(lines) when there is none
ClosingLine(ls, quote, i) ==
    IF i >= Len(ls) THEN Len(ls)
    ELSE IF Find(ls[i + 1], quote, 0) # -1 THEN i
    ELSE ClosingLine(ls, quote, i + 1)

RECURSIVE MergePass(_, _, _)
\* the first while loop of scan_source, from 0-based line index i
MergePass(ls, i, processed) ==
    IF i >= Len(ls) THEN processed
    ELSE
    LET line == ls[i + 1]
        triple_double_start == Find(line, TripleDouble, 0)
        triple_single_start == Find(line, TripleSingle, 0)
        useDouble == triple_double_start # -1 /\
                     (triple_single_start = -1 \/ triple_double_start < triple_single_start)
        quote == IF useDouble THEN TripleDouble ELSE TripleSingle
        start_pos == IF useDouble THEN triple_double_start ELSE triple_single_start
        remaining == Drop(line, start_pos + 3)
        end_pos == Find(remaining, quote, 0)
        j == ClosingLine(ls, quote, i + 1)
        last == IF j >= Len(ls) THEN Len(ls) ELSE j + 1
        string_content == SubSeq(ls, i + 1, last)
    IN IF ~useDouble /\ triple_single_start = -1
       THEN MergePass(ls, i + 1, Append(processed, line))
       ELSE IF end_pos # -1
       THEN MergePass(ls, i + 1, Append(processed, line))
       ELSE MergePass(ls, last, Append(processed, JoinLines(string_content)))

processed_lines(text) == MergePass(splitlines(text), 0, <<>>)

-----------------------------------------------------------------------------
(* scan_source, second pass: one line                                      *)

\* the multi-character operator s starts with, or <<>>; all entries of
\* MULTI_CHAR_OPS have length 2, so the order of the sorted() is immaterial
MultiOpAt(s) ==
    IF Len(s) >= 2 /\ SubSeq(s, 1, 2) \in MULTI_CHAR_OPS THEN SubSeq(s, 1, 2) ELSE <<>>

\* lines 308-312: is a + - ! ~ at this point a unary operator
is_unary(toks) ==
    \/ toks = <<>>
    \/ toks[Len(toks)].type \in {TOKEN_OPERATOR, TOKEN_NEWLINE, TOKEN_INDENT}
    \/ toks[Len(toks)].value \in {"(", "[", "{", ",", ":", "="}

\* lines 339-348: classification of a word
WordType(lit) ==
    IF lit \in KEYWORDS THEN TOKEN_KEYWORD
    ELSE IF lit \in DATATYPES THEN TOKEN_DATATYPE
    ELSE IF lit \in BUILTIN_LITERALS THEN TOKEN_LITERAL
    ELSE IF lit \in OPERATORS THEN TOKEN_OPERATOR
    ELSE TOKEN_IDENTIFIER

\* one iteration of the loop `while s:` (lines 238-358) on a non-empty s:
\* the number of characters consumed and the token emitted (<<>> for
\* skipped whitespace), the branches tried in the order of the source
ScanStep(s, col, toks, ln) ==
    IF IsSpace(s[1]) THEN
        [len |-> IF MatchWS(s) > 0 THEN MatchWS(s) ELSE 1, tok |-> <<>>]
    ELSE IF StartsWith(s, TripleDouble) \/ StartsWith(s, TripleSingle) THEN
        LET q == Take(s, 3)
            end == Find(s, q, 3)
        IN IF end # -1
           THEN [len |-> end + 3,
                 tok |-> <<make_token(TOKEN_STRING, Join(Take(s, end + 3)), ln, col)>>]
           ELSE [len |-> 3, tok |-> <<make_token(TOKEN_UNKNOWN, Join(q), ln, col)>>]
    ELSE IF MatchString(s, "\"") > 0 \/ MatchString(s, "'") > 0 THEN
        LET n == IF MatchString(s, "\"") > 0 THEN MatchString(s, "\"") ELSE MatchString(s, "'")
        IN [len |-> n, tok |-> <<make_token(TOKEN_STRING, Join(Take(s, n)), ln, col)>>]
    ELSE IF MultiOpAt(s) # <<>> THEN
        [len |-> 2, tok |-> <<make_token(TOKEN_OPERATOR, Join(MultiOpAt(s)), ln, col)>>]
    ELSE IF s[1] \in SINGLE_CHAR_PUNCT THEN
        LET ttype == IF s[1] \in {"+", "-", "!", "~"}
                     THEN (IF is_unary(toks) THEN TOKEN_OPERATOR
                           ELSE IF s[1] \in {"+", "-"} THEN TOKEN_OPERATOR ELSE TOKEN_PUNCT)
                     ELSE TOKEN_PUNCT
        IN [len |-> 1, tok |-> <<make_token(ttype, s[1], ln, col)>>]
    ELSE IF MatchNumber(s) > 0 THEN
        LET n == MatchNumber(s)
        IN [len |-> n, tok |-> <<make_token(TOKEN_NUMBER, Join(Take(s, n)), ln, col)>>]
    ELSE IF MatchIdentifier(s) > 0 THEN
        LET n == MatchIdentifier(s)
            lit == Join(Take(s, n))
        IN [len |-> n, tok |-> <<make_token(WordType(lit), lit, ln, col)>>]
    ELSE [len |-> 1, tok |-> <<make_token(TOKEN_UNKNOWN, s[1], ln, col)>>]

\* one iteration of the loop `while s:` from the loop state sc; a state whose
\* text is used up is left as it is
ScanIteration(sc, ln) ==
    IF sc.s = <<>> THEN sc
    ELSE LET step == ScanStep(sc.s, sc.col, sc.tokens, ln)
         IN [s |-> Drop(sc.s, step.len), col |-> sc.col + step.len,
             tokens |-> sc.tokens \o step.tok]

RECURSIVE ScanIterations(_, _, _)
\* 2^k iterations of the loop from the loop state sc
ScanIterations(sc, ln, k) ==
    IF k = 0 THEN ScanIteration(sc, ln)
    ELSE LET half == ScanIterations(sc, ln, k - 1)
         IN IF half.s = <<>> THEN half ELSE ScanIterations(half, ln, k - 1)

RECURSIVE Log2(_)
\* the least k with 2^k >= n
Log2(n) == IF n <= 1 THEN 0 ELSE 1 + Log2((n + 1) \div 2)

\* the loop `while s:` (lines 238-358): tokens of the code text s of line ln.
\* Every iteration consumes a character, so Len(s) iterations use up s.
TokenizeContent(s, col, toks, ln) ==
    ScanIterations([s |-> s, col |-> col, tokens |-> toks], ln, Log2(Len(s)))

\* leading_ws.count("\t")
CountTabs(s) == Cardinality({k \in 1..Len(s) : s[k] = "\t"})

\* len(leading_ws.replace("\t", "    "))
IndentLen(leading_ws) == Len(leading_ws) + 3 * CountTabs(leading_ws)

\* the dedent loop emitting one DEDENT for the line instead of one per level
\* popped (fault injected to test IndentStackBalanced)
UnwindOneDedent(stack, toks, indent_len, ln) ==
    [stack |-> SelectSeq(stack, LAMBDA w : w <= indent_len),
     tokens |-> Append(toks, make_token(TOKEN_DEDENT, "", ln, 0))]

RECURSIVE UnwindPastMatch(_, _, _, _)
\* the dedent loop with `<=` for `<`: the level equal to the new width is
\* popped too (fault injected to test DedentUnwindsToMatch)
UnwindPastMatch(stack, toks, indent_len, ln) ==
    IF Len(stack) > 1 /\ indent_len <= stack[Len(stack)]
    THEN UnwindPastMatch(Take(stack, Len(stack) - 1),
                         Append(toks, make_token(TOKEN_DEDENT, "", ln, 0)), indent_len, ln)
    ELSE [stack |-> stack, tokens |-> toks]

RECURSIVE Unwind(_, _, _, _)
\* `while indent_len < indent_stack[-1]`: pop and emit one DEDENT per pop
Unwind(stack, toks, indent_len, ln) ==
    IF indent_len < stack[Len(stack)]
    THEN Unwind(Take(stack, Len(stack) - 1),
                Append(toks, make_token(TOKEN_DEDENT, "", ln, 0)), indent_len, ln)
    ELSE [stack |-> stack, tokens |-> toks]

\* TrackIndent with a unit of four columns instead of the unit the first
\* indented line sets (fault injected to test IndentationRoundTrip)
TrackIndentFixedUnit(sc, indent_len, ln) ==
    LET current_indent == sc.indent_stack[Len(sc.indent_stack)]
    IN IF indent_len > current_indent THEN
           LET indent_increase == indent_len - current_indent
               t1 == IF indent_increase % 4 # 0
                     THEN Append(sc.tokens, make_token(TOKEN_UNKNOWN, MsgInconsistent(4), ln, 0))
                     ELSE sc.tokens
           IN [sc EXCEPT !.indent_unit = 4,
                         !.indent_stack = Append(@, indent_len),
                         !.tokens = Append(t1, make_token(TOKEN_INDENT, indent_len, ln, 0))]
       ELSE IF indent_len < current_indent THEN
           LET u == Unwind(sc.indent_stack, sc.tokens, indent_len, ln)
           IN [sc EXCEPT !.indent_stack = u.stack,
                         !.tokens = IF indent_len # u.stack[Len(u.stack)]
                                    THEN Append(u.tokens, make_token(TOKEN_UNKNOWN, MsgUnindent, ln, 0))
                                    ELSE u.tokens]
       ELSE sc

\* TrackIndent that reports an inconsistent increase and then drops it: the
\* width is not pushed and no INDENT is emitted (fault injected to test
\* InconsistentIndentReported)
TrackIndentDropsInconsistent(sc, indent_len, ln) ==
    LET current_indent == sc.indent_stack[Len(sc.indent_stack)]
    IN IF indent_len > current_indent THEN
           LET indent_increase == indent_len - current_indent
               unit == IF sc.indent_unit = NoUnit THEN indent_increase ELSE sc.indent_unit
           IN IF indent_increase % unit # 0
              THEN [sc EXCEPT !.indent_unit = unit,
                              !.tokens = Append(@, make_token(TOKEN_UNKNOWN,
                                                              MsgInconsistent(unit), ln, 0))]
              ELSE [sc EXCEPT !.indent_unit = unit,
                              !.indent_stack = Append(@, indent_len),
                              !.tokens = Append(@, make_token(TOKEN_INDENT, indent_len, ln, 0))]
       ELSE IF indent_len < current_indent THEN
           LET u == Unwind(sc.indent_stack, sc.tokens, indent_len, ln)
           IN [sc EXCEPT !.indent_stack = u.stack,
                         !.tokens = IF indent_len # u.stack[Len(u.stack)]
                                    THEN Append(u.tokens, make_token(TOKEN_UNKNOWN, MsgUnindent, ln, 0))
                                    ELSE u.tokens]
       ELSE sc

\* lines 192-228: the indentation tokens of a non-blank line
TrackIndent(sc, indent_len, ln) ==
    LET current_indent == sc.indent_stack[Len(sc.indent_stack)]
    IN IF indent_len > current_indent THEN
           LET indent_increase == indent_len - current_indent
               unit == IF sc.indent_unit = NoUnit THEN indent_increase ELSE sc.indent_unit
               t1 == IF indent_increase % unit # 0
                     THEN Append(sc.tokens, make_token(TOKEN_UNKNOWN, MsgInconsistent(unit), ln, 0))
                     ELSE sc.tokens
           IN [sc EXCEPT !.indent_unit = unit,
                         !.indent_stack = Append(@, indent_len),
                         !.tokens = Append(t1, make_token(TOKEN_INDENT, indent_len, ln, 0))]
       ELSE IF indent_len < current_indent THEN
           LET u == Unwind(sc.indent_stack, sc.tokens, indent_len, ln)
           IN [sc EXCEPT !.indent_stack = u.stack,
                         !.tokens = IF indent_len # u.stack[Len(u.stack)]
                                    THEN Append(u.tokens, make_token(TOKEN_UNKNOWN, MsgUnindent, ln, 0))
                                    ELSE u.tokens]
       ELSE sc

\* body of `for raw_line in lines` (lines 177-365); sc is the scanner's
\* local state [tokens, indent_stack, indent_unit, line_no]
ScanLine(sc, raw_line) ==
    LET ln == sc.line_no + 1
        line == RStrip(raw_line, {"\n", "\r"})
        leading_ws == Take(line, MatchWS(line))
        indent_len == IndentLen(leading_ws)
        stripped == Drop(line, Len(leading_ws))
        s1 == TrackIndent([sc EXCEPT !.line_no = ln], indent_len, ln)
        comment_idx == Find(stripped, <<"-", "-", ">">>, 0)
        content == IF comment_idx # -1 THEN Take(stripped, comment_idx) ELSE stripped
        comment_text == IF comment_idx # -1 THEN Strip(Drop(stripped, comment_idx + 3)) ELSE <<>>
        tk == TokenizeContent(content, Len(leading_ws), s1.tokens, ln)
        t2 == IF comment_text # <<>>
              THEN Append(tk.tokens, make_token(TOKEN_COMMENT, Join(comment_text), ln, tk.col))
              ELSE tk.tokens
    IN IF Strip(line) = <<>>
       THEN [sc EXCEPT !.line_no = ln,
                       !.tokens = Append(@, make_token(TOKEN_NEWLINE, "", ln, 0))]
       ELSE [s1 EXCEPT !.tokens = Append(t2, make_token(TOKEN_NEWLINE, "", ln, Len(raw_line)))]

RECURSIVE FinalDedents(_, _, _)
\* lines 367-370: one DEDENT per level still open
FinalDedents(stack, toks, ln) ==
    IF Len(stack) > 1
    THEN FinalDedents(Take(stack, Len(stack) - 1),
                      Append(toks, make_token(TOKEN_DEDENT, "", ln, 0)), ln)
    ELSE [stack |-> stack, tokens |-> toks]

\* Finalize with line 372 moved above the loop of lines 368-370: EOF is
\* appended before the closing DEDENTs (fault injected to test ScanEndsWithOneEOF)
FinalizeEOFFirst(sc) ==
    LET f == FinalDedents(sc.indent_stack,
                          Append(sc.tokens, make_token(TOKEN_EOF, "", sc.line_no + 1, 0)),
                          sc.line_no + 1)
    IN [sc EXCEPT !.indent_stack = f.stack, !.tokens = f.tokens]

\* lines 367-373
Finalize(sc) ==
    LET f == FinalDedents(sc.indent_stack, sc.tokens, sc.line_no + 1)
    IN [sc EXCEPT !.indent_stack = f.stack,
                  !.tokens = Append(f.tokens, make_token(TOKEN_EOF, "", sc.line_no + 1, 0))]

\* lines 116-119: the scanner's locals before the first line
ScanInit == [tokens |-> <<>>, indent_stack |-> <<0>>, indent_unit |-> NoUnit, line_no |-> 0]

RECURSIVE ScanLines(_, _)
ScanLines(sc, ls) == IF ls = <<>> THEN sc ELSE ScanLines(ScanLine(sc, Head(ls)), Tail(ls))

\* the characters of a string
Chars(str) == [k \in 1..Len(str) |-> SubSeq(str, k, k)]

\* scan_source(source_text): the token list
scan_source(text) == Finalize(ScanLines(ScanInit, processed_lines(Chars(text)))).tokens

-----------------------------------------------------------------------------
(* parser.py: Node, ParserState                                            *)

DATA_TYPE_INT == "potion"
DATA_TYPE_DOUBLE == "elixir"
DATA_TYPE_STRING == "scroll"
DATA_TYPE_BOOL == "fate"

\* Python None as a type (dtype, the value returned by analyze_node)
NoneT == "None"

\* Python None as a line number
NoLine == 0

\* frames available below parse() before the interpreter raises
\* RecursionError (sys.getrecursionlimit(), scaled down)
RecursionLimit == 26

\* class Node: __init__
Node(ntype, value, children, lineno) ==
    [type |-> ntype, value |-> value, children |-> children, lineno |-> lineno,
     dtype |-> NoneT]

\* ParserState.__init__; depth and raised model the interpreter's call
\* stack: raised is set when a call finds no frame left (RecursionError),
\* and every caller then returns at once, up to the handler in parse().
\* in_panic is a history field: the number of diagnostics appended while
\* panic_mode was set; stalls is another: the number of statement-loop
\* iterations that consumed no token and did not end their loop
ParserStateInit(toks) ==
    [tokens |-> toks, i |-> 0, errors |-> <<>>, panic_mode |-> FALSE,
     depth |-> 0, raised |-> FALSE, in_panic |-> 0, stalls |-> 0]

\* entering a Python function: one more frame, RecursionError past the limit
Enter(st) ==
    IF st.raised \/ st.depth >= RecursionLimit THEN [st EXCEPT !.raised = TRUE]
    ELSE [st EXCEPT !.depth = @ + 1]

\* returning from a Python function
Leave(st) == [st EXCEPT !.depth = @ - 1]

\* a function's result: the parser state and the value returned
Ret(st, val) == [st |-> Leave(st), val |-> val]

\* a function left by the exception: no value
Raised(st) == [st |-> st, val |-> <<>>]

\* ParserState.current
current(st) ==
    IF st.i < Len(st.tokens) THEN st.tokens[st.i + 1] ELSE make_token(TOKEN_EOF, "EOF", -1, -1)

\* ParserState.peek
peek(st, offset) ==
    IF st.i + offset < Len(st.tokens) THEN st.tokens[st.i + offset + 1]
    ELSE make_token(TOKEN_EOF, "EOF", -1, -1)

\* ParserState.advance (the token returned is current(st) of the caller)
advance(st) == [st EXCEPT !.i = @ + 1, !.panic_mode = FALSE]

\* ParserState.match(ttype)
matchType(st, ttype) == current(st).type = ttype

\* ParserState.match(ttype, value)
match(st, ttype, value) == current(st).type = ttype /\ current(st).value = value

\* ParserState.error without line 547: panic mode is entered but the
\* diagnostic is not recorded (fault injected to test NoDiagnosticsMeansValid)
errorNotRecorded(st, msg, lineno) == [st EXCEPT !.panic_mode = TRUE]

\* ParserState.error
error(st, msg, lineno) ==
    [st EXCEPT !.errors = Append(@, <<lineno, msg>>), !.panic_mode = TRUE,
               !.in_panic = IF st.panic_mode THEN @ + 1 ELSE @]

\* an expected (type, value) pair; the value None is <<>>
Pair(t, v) == <<t, <<v>>>>

\* an expected type with any value
PairAny(t) == <<t, <<>>>>

\* ParserState.expect: val is <<tok>> for the consumed token, <<>> for None
expect(st, expected_pairs, msg) ==
    LET cur == current(st)
        hit == \E k \in 1..Len(expected_pairs) :
                   /\ cur.type = expected_pairs[k][1]
                   /\ (expected_pairs[k][2] = <<>> \/ cur.value = expected_pairs[k][2][1])
    IN IF hit THEN [st |-> advance(st), val |-> <<cur>>]
       ELSE [st |-> error(st, msg, cur.lineno), val |-> <<>>]

\* str(tok["value"]) inside a message
ValueStr(tok) == IF tok.type = TOKEN_INDENT THEN ToString(tok.value) ELSE tok.value

SyncKeywords == {"summon", "spot", "replay", "farm", "quest", "attack", "embark", "reward"}

RECURSIVE SynchronizeLoop(_)
\* the while loop of synchronize (lines 559-580)
SynchronizeLoop(st) ==
    IF matchType(st, TOKEN_EOF) THEN [st EXCEPT !.panic_mode = FALSE]
    ELSE IF matchType(st, TOKEN_NEWLINE) THEN [advance(st) EXCEPT !.panic_mode = FALSE]
    ELSE IF matchType(st, TOKEN_KEYWORD) /\ current(st).value \in SyncKeywords
         THEN [st EXCEPT !.panic_mode = FALSE]
    ELSE IF matchType(st, TOKEN_DEDENT) THEN [st EXCEPT !.panic_mode = FALSE]
    ELSE SynchronizeLoop(advance(st))

\* ParserState.synchronize
synchronize(st) == IF ~st.panic_mode THEN st ELSE SynchronizeLoop(st)

\* the newline-skipping loops left out (fault injected to test
\* StatementLoopAdvances)
SkipNewlinesNone(st) == st

RECURSIVE SkipNewlines(_)
\* while state.match(TOKEN_NEWLINE): state.advance()
SkipNewlines(st) == IF matchType(st, TOKEN_NEWLINE) THEN SkipNewlines(advance(st)) ELSE st

-----------------------------------------------------------------------------
(* parser.py: expressions.  A function's result is the pair of the parser   *)
(* state and the value returned.  What a function does after a call it      *)
(* makes is an operator of its own that takes the call's result: it does    *)
(* nothing more when the call was left by the exception.  A function        *)
(* whose first step is a call hands it the state of Enter: when Enter has   *)
(* raised, every callee down to parse_unary hands the state on unchanged    *)
(* and parse_unary returns it as raised.                                    *)

\* `return f(...)`: the callee's value is the caller's
Return(r) == IF r.st.raised THEN r ELSE Ret(r.st, r.val)

\* an operand r of a binary operator, once parsed: the left operand when
\* nothing is pending, else the BinaryOp node of the pending left operand and
\* operator with r on the right (left = Node("BinaryOp", op, [left, right]))
Operand(pending, r) ==
    IF pending = <<>> THEN r
    ELSE [st |-> r.st,
          val |-> Node("BinaryOp", <<pending[2].value>>, <<pending[1].val, r.val>>,
                       pending[2].lineno)]

RECURSIVE parse_expr(_), parse_logical_or(_), LogicalOrLoop(_, _),
          parse_logical_and(_), LogicalAndLoop(_, _),
          parse_comparison(_), ComparisonLoop(_, _),
          parse_add_expr(_), AddLoop(_, _), parse_term(_), TermLoop(_, _),
          parse_exponent(_), ExponentRest(_), ExponentLoop(_), parse_unary(_), parse_factor(_),
          parse_postfix_ops(_, _), PostfixLoop(_),
          parse_call_with_target(_, _), CallArgsLoop(_, _)

parse_expr(st0) == Return(parse_logical_or(Enter(st0)))

\* while state.match(TOKEN_OPERATOR, "or"): with the operand r, go on with the
\* operator and the next operand, or return the tree
LogicalOrNext(pending, r) ==
    IF r.st.raised THEN r
    ELSE LET l == Operand(pending, r)
         IN IF match(l.st, TOKEN_OPERATOR, "or")
            THEN LogicalOrLoop(<<l, current(l.st)>>, advance(l.st))
            ELSE Ret(l.st, l.val)

\* the next operand of parse_logical_or: the first one when nothing is pending
LogicalOrLoop(pending, st) == LogicalOrNext(pending, parse_logical_and(st))

parse_logical_or(st0) == LogicalOrLoop(<<>>, Enter(st0))

\* while state.match(TOKEN_OPERATOR, "and"): with the operand r, go on with the
\* operator and the next operand, or return the tree
LogicalAndNext(pending, r) ==
    IF r.st.raised THEN r
    ELSE LET l == Operand(pending, r)
         IN IF match(l.st, TOKEN_OPERATOR, "and")
            THEN LogicalAndLoop(<<l, current(l.st)>>, advance(l.st))
            ELSE Ret(l.st, l.val)

\* the next operand of parse_logical_and: the first one when nothing is pending
LogicalAndLoop(pending, st) == LogicalAndNext(pending, parse_comparison(st))

parse_logical_and(st0) == LogicalAndLoop(<<>>, Enter(st0))

\* while the current token is a comparison operator: with the operand r, go on with the
\* operator and the next operand, or return the tree
ComparisonNext(pending, r) ==
    IF r.st.raised THEN r
    ELSE LET l == Operand(pending, r)
         IN IF /\ current(l.st).type \in {TOKEN_OPERATOR, TOKEN_PUNCT}
               /\ current(l.st).value \in {"==", "!=", "<", ">", "<=", ">="}
            THEN ComparisonLoop(<<l, current(l.st)>>, advance(l.st))
            ELSE Ret(l.st, l.val)

\* the next operand of parse_comparison: the first one when nothing is pending
ComparisonLoop(pending, st) == ComparisonNext(pending, parse_add_expr(st))

parse_comparison(st0) == ComparisonLoop(<<>>, Enter(st0))

\* while state.match(TOKEN_PUNCT) and the value is + or -: with the operand r, go on with the
\* operator and the next operand, or return the tree
AddNext(pending, r) ==
    IF r.st.raised THEN r
    ELSE LET l == Operand(pending, r)
         IN IF matchType(l.st, TOKEN_PUNCT) /\ current(l.st).value \in {"+", "-"}
            THEN AddLoop(<<l, current(l.st)>>, advance(l.st))
            ELSE Ret(l.st, l.val)

\* the next operand of parse_add_expr: the first one when nothing is pending
AddLoop(pending, st) == AddNext(pending, parse_term(st))

parse_add_expr(st0) == AddLoop(<<>>, Enter(st0))

\* while the current token is * / % (PUNCT) or // (OPERATOR): with the operand r, go on with the
\* operator and the next operand, or return the tree
TermNext(pending, r) ==
    IF r.st.raised THEN r
    ELSE LET l == Operand(pending, r)
         IN IF \/ (matchType(l.st, TOKEN_PUNCT) /\ current(l.st).value \in {"*", "/", "%"})
               \/ (matchType(l.st, TOKEN_OPERATOR) /\ current(l.st).value = "//")
            THEN TermLoop(<<l, current(l.st)>>, advance(l.st))
            ELSE Ret(l.st, l.val)

\* the next operand of parse_term: the first one when nothing is pending
TermLoop(pending, st) == TermNext(pending, parse_exponent(st))

parse_term(st0) == TermLoop(<<>>, Enter(st0))

parse_exponent(st0) == ExponentRest(parse_unary(Enter(st0)))

\* line 1079: the BinaryOp node once the right operand is parsed
ExponentEnd(l, op, r) ==
    IF r.st.raised THEN r
    ELSE Ret(r.st, Node("BinaryOp", <<op.value>>, <<l.val, r.val>>, op.lineno))

\* parse_exponent written like parse_term, as a loop over parse_unary: `**`
\* becomes left-associative (fault injected to test ExponentRightAssociative)
ExponentLoop(l) ==
    IF l.st.raised THEN l
    ELSE IF match(l.st, TOKEN_OPERATOR, "**")
    THEN ExponentLoop(Operand(<<l, current(l.st)>>, parse_unary(advance(l.st))))
    ELSE Ret(l.st, l.val)

\* lines 1072-1079: after the left operand, `**` and the right operand
ExponentRest(l) ==
    IF l.st.raised THEN l
    ELSE IF match(l.st, TOKEN_OPERATOR, "**")
    THEN ExponentEnd(l, current(l.st), parse_exponent(advance(l.st)))
    ELSE Ret(l.st, l.val)

\* lines 1085-1087: the node of a unary operator once its operand is parsed
UnaryOp(op, r) ==
    IF r.st.raised THEN r
    ELSE Ret(r.st, Node("UnaryOp", <<op.value>>, <<r.val>>, op.lineno))

parse_unary(st0) ==
    LET st == Enter(st0)
        cur == current(st)
    IN IF st.raised THEN Raised(st)
       ELSE IF cur.type = TOKEN_OPERATOR /\ cur.value \in {"not", "+", "-"}
       THEN UnaryOp(cur, parse_unary(advance(st)))
       ELSE Return(parse_factor(st))

\* the node type of a literal token (the dictionary of lines 1106-1110)
LiteralNodeType(ttype) ==
    CASE ttype = TOKEN_NUMBER -> "Number"
      [] ttype = TOKEN_STRING -> "String"
      [] ttype = TOKEN_LITERAL -> "Literal"

\* lines 1127-1128: the closing parenthesis after the expression
Parenthesized(r) ==
    IF r.st.raised THEN r
    ELSE Ret(expect(r.st, <<Pair(TOKEN_PUNCT, ")")>>,
                    "Expected ')' after parenthesized expression").st, r.val)

parse_factor(st0) ==
    LET st == Enter(st0)
        cur == current(st)
    IN IF st.raised THEN Raised(st)
       ELSE IF cur.type \in {TOKEN_NUMBER, TOKEN_STRING, TOKEN_LITERAL}
       THEN Ret(advance(st), Node(LiteralNodeType(cur.type), <<cur.value>>, <<>>, cur.lineno))
       ELSE IF cur.type \in {TOKEN_DATATYPE, TOKEN_IDENTIFIER}
       THEN Return(parse_postfix_ops(advance(st),
                                     Node("Identifier", <<cur.value>>, <<>>, cur.lineno)))
       ELSE IF cur.type = TOKEN_PUNCT /\ cur.value = "("
       THEN Parenthesized(parse_expr(advance(st)))
       ELSE Ret(advance(error(st, "Unexpected expression token: " \o cur.type \o " ("
                                      \o ValueStr(cur) \o ")", cur.lineno)),
                Node("Empty", <<>>, <<>>, cur.lineno))

\* lines 1146-1155: `.` and the attribute name
AttributeOf(l, s1) ==
    IF matchType(s1, TOKEN_IDENTIFIER)
    THEN [st |-> advance(s1),
          val |-> Node("Attribute", <<current(s1).value>>, <<l.val>>, current(s1).lineno)]
    ELSE [st |-> error(s1, "Expected identifier after '.'", current(s1).lineno),
          val |-> l.val]

\* while True (lines 1144-1160)
PostfixLoop(l) ==
    IF l.st.raised THEN l
    ELSE IF match(l.st, TOKEN_PUNCT, ".")
    THEN IF matchType(advance(l.st), TOKEN_IDENTIFIER)
         THEN PostfixLoop(AttributeOf(l, advance(l.st)))
         ELSE AttributeOf(l, advance(l.st))
    ELSE IF match(l.st, TOKEN_PUNCT, "(")
    THEN PostfixLoop(parse_call_with_target(l.st, l.val))
    ELSE l

parse_postfix_ops(st0, node) ==
    LET st == Enter(st0)
    IN IF st.raised THEN Raised(st) ELSE Return(PostfixLoop([st |-> st, val |-> node]))

\* lines 1172-1176: after an argument, `,` and the next one, or the end
CallArgsNext(args, r) ==
    IF r.st.raised THEN r
    ELSE IF match(r.st, TOKEN_PUNCT, ",")
    THEN CallArgsLoop(advance(r.st), Append(args, r.val))
    ELSE [st |-> r.st, val |-> Append(args, r.val)]

\* the argument loop of a call: while True: parse_expr; stop unless ","
CallArgsLoop(st, args) == CallArgsNext(args, parse_expr(st))

\* lines 1178-1180: the closing parenthesis and the Call node
CallEnd(target_node, lpar, a) ==
    IF a.st.raised THEN a
    ELSE Ret(expect(a.st, <<Pair(TOKEN_PUNCT, ")")>>, "Expected ')' after call arguments").st,
             Node("Call", <<>>, <<target_node>> \o a.val,
                  IF lpar.val # <<>> THEN lpar.val[1].lineno ELSE target_node.lineno))

parse_call_with_target(st0, target_node) ==
    LET st == Enter(st0)
        lpar == expect(st, <<Pair(TOKEN_PUNCT, "(")>>, "Expected '(' for function call")
    IN IF st.raised THEN Raised(st)
       ELSE CallEnd(target_node, lpar,
                    IF ~match(lpar.st, TOKEN_PUNCT, ")")
                    THEN CallArgsLoop(lpar.st, <<>>)
                    ELSE [st |-> lpar.st, val |-> <<>>])

-----------------------------------------------------------------------------
(* parser.py: statements                                                   *)

RECURSIVE parse_statement_block(_), parse_statement_list(_, _), StatementLoop(_, _),
          ElifLoop(_), ExceptLoop(_)

RECURSIVE ImportLoop(_, _)
\* while True (lines 742-756): module names separated by commas
ImportLoop(st, node) ==
    IF matchType(st, TOKEN_IDENTIFIER)
    THEN LET mid == current(st)
             s1 == advance(st)
             n1 == [node EXCEPT !.children =
                        Append(@, Node("Module", <<mid.value>>, <<>>, mid.lineno))]
         IN IF match(s1, TOKEN_PUNCT, ",")
            THEN LET s2 == advance(s1)
                 IN IF ~matchType(s2, TOKEN_IDENTIFIER)
                    THEN [st |-> error(s2, "Expected module name after ',' in import",
                                       current(s2).lineno),
                          val |-> n1]
                    ELSE ImportLoop(s2, n1)
            ELSE [st |-> s1, val |-> n1]
    ELSE [st |-> error(st, "Expected module name in import statement", current(st).lineno),
          val |-> node]

\* lines 738-758: the module names after `summon`
ImportNames(st, node) ==
    IF ~matchType(st, TOKEN_IDENTIFIER)
    THEN Ret(error(st, "Expected module name after 'summon'", current(st).lineno), node)
    ELSE Return(ImportLoop(st, node))

parse_import(st0) ==
    LET st == Enter(st0)
        tok == expect(st, <<Pair(TOKEN_KEYWORD, "summon")>>, "Expected 'summon' for import")
    IN IF st.raised THEN Raised(st)
       ELSE IF tok.val = <<>>
       THEN Ret(tok.st, Node("Import", <<>>, <<>>, current(tok.st).lineno))
       ELSE ImportNames(tok.st, Node("Import", <<>>, <<>>, tok.val[1].lineno))

\* lines 805-807: the closing parenthesis and the Input node
InputEnd(start, r) ==
    IF r.st.raised THEN r
    ELSE Ret(expect(r.st, <<Pair(TOKEN_PUNCT, ")")>>, "Expected ')' after 'scout' argument").st,
             Node("Input", <<>>, <<r.val>>, start.lineno))

parse_input_stmt(st0) ==
    LET st == Enter(st0)
        start == expect(st, <<Pair(TOKEN_KEYWORD, "scout")>>, "Expected 'scout' for input")
    IN IF st.raised THEN Raised(st)
       ELSE IF start.val = <<>>
       THEN Ret(start.st, Node("Input", <<>>, <<>>, current(start.st).lineno))
       ELSE InputEnd(start.val[1],
                     parse_expr(expect(start.st, <<Pair(TOKEN_PUNCT, "(")>>,
                                       "Expected '(' after 'scout'").st))

\* line 774: the Assignment node once the right-hand side is parsed
AssignmentEnd(ident, r) ==
    IF r.st.raised THEN r
    ELSE Ret(r.st, Node("Assignment", <<ident.value>>, <<r.val>>, ident.lineno))

\* lines 766-772: `=` and the right-hand side
AssignmentValue(ident, st) ==
    AssignmentEnd(ident, IF match(st, TOKEN_KEYWORD, "scout")
                         THEN parse_input_stmt(st)
                         ELSE parse_expr(st))

parse_assignment(st0) ==
    LET st == Enter(st0)
        ident == expect(st, <<PairAny(TOKEN_IDENTIFIER)>>, "Expected identifier in assignment")
    IN IF st.raised THEN Raised(st)
       ELSE IF ident.val = <<>>
       THEN Ret(ident.st, Node("Assignment", <<>>, <<>>, current(ident.st).lineno))
       ELSE AssignmentValue(ident.val[1],
                            expect(ident.st, <<Pair(TOKEN_PUNCT, "=")>>,
                                   "Expected '=' in assignment").st)

CompoundOps == {"+=", "-=", "*=", "/=", "%=", "**="}

\* op_tok["value"][:-1] for the operators of CompoundOps
BaseOp(op) ==
    CASE op = "+=" -> "+"
      [] op = "-=" -> "-"
      [] op = "*=" -> "*"
      [] op = "/=" -> "/"
      [] op = "%=" -> "%"
      [] op = "**=" -> "**"

\* lines 791-795: x op= e is the assignment of the BinaryOp of x and e to x
CompoundEnd(ident, op_tok, r) ==
    IF r.st.raised THEN r
    ELSE Ret(r.st, Node("Assignment", <<ident.value>>,
                        <<Node("BinaryOp", <<BaseOp(op_tok.value)>>,
                               <<Node("Identifier", <<ident.value>>, <<>>, ident.lineno), r.val>>,
                               op_tok.lineno)>>,
                        ident.lineno))

\* lines 784-790: the compound operator and the right-hand side
CompoundValue(ident, op_tok) ==
    IF op_tok.val = <<>> \/ op_tok.val[1].value \notin CompoundOps
    THEN Ret(error(op_tok.st, "Expected +=, -=, *=, /=, %=, or **=", current(op_tok.st).lineno),
             Node("Assignment", <<ident.value>>, <<>>, ident.lineno))
    ELSE CompoundEnd(ident, op_tok.val[1], parse_expr(op_tok.st))

parse_compound_assignment(st0) ==
    LET st == Enter(st0)
        ident == expect(st, <<PairAny(TOKEN_IDENTIFIER)>>,
                        "Expected identifier in compound assignment")
    IN IF st.raised THEN Raised(st)
       ELSE IF ident.val = <<>>
       THEN Ret(ident.st, Node("Assignment", <<>>, <<>>, current(ident.st).lineno))
       ELSE CompoundValue(ident.val[1],
                          expect(ident.st, <<PairAny(TOKEN_OPERATOR)>>,
                                 "Expected compound operator"))

RECURSIVE OutputArgsLoop(_, _)
\* lines 821-824: after an argument, `,` and the next one, or the end
OutputArgsNext(node, r) ==
    IF r.st.raised THEN r
    ELSE IF match(r.st, TOKEN_PUNCT, ",")
    THEN OutputArgsLoop(advance(r.st), [node EXCEPT !.children = Append(@, r.val)])
    ELSE [st |-> r.st, val |-> [node EXCEPT !.children = Append(@, r.val)]]

\* while True (lines 820-824)
OutputArgsLoop(st, node) == OutputArgsNext(node, parse_expr(st))

\* lines 826-827: the closing parenthesis
OutputEnd(a) ==
    IF a.st.raised THEN a
    ELSE Ret(expect(a.st, <<Pair(TOKEN_PUNCT, ")")>>, "Expected ')' after attack arguments").st,
             a.val)

\* lines 817-825: the arguments between the parentheses
OutputArgs(st, node) ==
    OutputEnd(IF ~match(st, TOKEN_PUNCT, ")")
              THEN OutputArgsLoop(st, node)
              ELSE [st |-> st, val |-> node])

parse_output_stmt(st0) ==
    LET st == Enter(st0)
        start == expect(st, <<Pair(TOKEN_KEYWORD, "attack")>>, "Expected 'attack' for output")
    IN IF st.raised THEN Raised(st)
       ELSE IF start.val = <<>>
       THEN Ret(start.st, Node("Output", <<>>, <<>>, current(start.st).lineno))
       ELSE OutputArgs(expect(start.st, <<Pair(TOKEN_PUNCT, "(")>>,
                              "Expected '(' after 'attack'").st,
                       Node("Output", <<>>, <<>>, start.val[1].lineno))

\* lines 832-833: the closing parenthesis of a condition
ConditionEnd(cond) ==
    IF cond.st.raised THEN cond
    ELSE Ret(expect(cond.st, <<Pair(TOKEN_PUNCT, ")")>>, "Expected ')' after condition").st,
             cond.val)

parse_condition(st0) ==
    LET st == Enter(st0)
    IN IF st.raised THEN Raised(st)
       ELSE ConditionEnd(parse_expr(expect(st, <<Pair(TOKEN_PUNCT, "(")>>,
                                           "Expected '(' before condition").st))

\* line 952: the Return node once the expression is parsed
ReturnEnd(start, r) ==
    IF r.st.raised THEN r
    ELSE Ret(r.st, Node("Return", <<>>, <<r.val>>, start.lineno))

parse_return(st0) ==
    LET st == Enter(st0)
        start == expect(st, <<Pair(TOKEN_KEYWORD, "reward")>>, "Expected 'reward' for return")
    IN IF st.raised THEN Raised(st)
       ELSE IF start.val = <<>>
       THEN Ret(start.st, Node("Return", <<>>, <<>>, current(start.st).lineno))
       ELSE ReturnEnd(start.val[1], parse_expr(start.st))

\* line 861: the Elif node appended to the If node once its body is parsed
ElifEnd(l, ccond, cbody) ==
    IF cbody.st.raised THEN cbody
    ELSE [st |-> cbody.st,
          val |-> [l.val EXCEPT !.children =
                      Append(@, Node("Elif", <<>>,
                                     <<Node("Condition", <<>>, <<ccond.val>>, NoLine),
                                       Node("Body", <<>>, cbody.val, NoLine)>>,
                                     current(cbody.st).lineno))]]

\* lines 855-856: `:` and the body of a counter arm
ElifBody(l, ccond) ==
    IF ccond.st.raised THEN ccond
    ELSE ElifEnd(l, ccond,
                 parse_statement_block(expect(ccond.st, <<Pair(TOKEN_PUNCT, ":")>>,
                                              "Expected ':' after counter header").st))

\* while state.match(TOKEN_KEYWORD, "counter") (lines 852-861); the pair is
\* the parser state and the If node built so far
ElifLoop(l) ==
    IF l.st.raised THEN l
    ELSE IF match(l.st, TOKEN_KEYWORD, "counter")
    THEN ElifLoop(ElifBody(l, parse_condition(advance(l.st))))
    ELSE l

\* line 867: the Else node appended once its body is parsed
IfEnd(el, b) ==
    IF b.st.raised THEN b
    ELSE Ret(b.st, [el.val EXCEPT !.children =
                       Append(@, Node("Else", <<>>, b.val, current(b.st).lineno))])

\* lines 863-869: the dodge arm, if any
IfElse(el) ==
    IF el.st.raised THEN el
    ELSE IF ~match(el.st, TOKEN_KEYWORD, "dodge") THEN Ret(el.st, el.val)
    ELSE IfEnd(el, parse_statement_block(expect(advance(el.st), <<Pair(TOKEN_PUNCT, ":")>>,
                                                "Expected ':' after 'dodge'").st))

\* lines 846-861: the If node with its condition and then-block, and the
\* counter arms
IfElifs(ln, cond, then_block) ==
    IF then_block.st.raised THEN then_block
    ELSE IfElse(ElifLoop([st |-> then_block.st,
                          val |-> Node("If", <<>>,
                                       <<Node("Condition", <<>>, <<cond.val>>, cond.val.lineno),
                                         Node("Then", <<>>, then_block.val, ln)>>, ln)]))

\* lines 842-843: `:` and the then-block
IfThen(ln, cond) ==
    IF cond.st.raised THEN cond
    ELSE IfElifs(ln, cond,
                 parse_statement_block(expect(cond.st, <<Pair(TOKEN_PUNCT, ":")>>,
                                              "Expected ':' after if header").st))

parse_if(st0) ==
    LET st == Enter(st0)
        start == expect(st, <<Pair(TOKEN_KEYWORD, "spot")>>, "Expected 'spot' for if")
    IN IF st.raised THEN Raised(st)
       ELSE IF start.val = <<>>
       THEN Ret(start.st, Node("If", <<>>, <<>>, current(start.st).lineno))
       ELSE IfThen(start.val[1].lineno, parse_condition(start.st))

\* lines 882-886: the While node once its body is parsed
WhileEnd(start, cond, b) ==
    IF b.st.raised THEN b
    ELSE Ret(b.st, Node("While", <<>>,
                        <<Node("Condition", <<>>, <<cond.val>>, NoLine),
                          Node("Body", <<>>, b.val, NoLine)>>,
                        start.lineno))

\* lines 878-880: `:` and the body
WhileBody(start, cond) ==
    IF cond.st.raised THEN cond
    ELSE WhileEnd(start, cond,
                  parse_statement_block(expect(cond.st, <<Pair(TOKEN_PUNCT, ":")>>,
                                               "Expected ':' after while header").st))

parse_while(st0) ==
    LET st == Enter(st0)
        start == expect(st, <<Pair(TOKEN_KEYWORD, "replay")>>, "Expected 'replay' for while")
    IN IF st.raised THEN Raised(st)
       ELSE IF start.val = <<>>
       THEN Ret(start.st, Node("While", <<>>, <<>>, current(start.st).lineno))
       ELSE WhileBody(start.val[1], parse_condition(start.st))

\* lines 909-915: the For node once its body is parsed
ForEnd(start, varNodes, it, b) ==
    IF b.st.raised THEN b
    ELSE Ret(b.st, Node("For", <<>>,
                        varNodes \o <<Node("Iter", <<>>, <<it.val>>, NoLine),
                                      Node("Body", <<>>, b.val, NoLine)>>,
                        start.lineno))

\* lines 905-907: `:` and the body
ForBody(start, varNodes, it) ==
    IF it.st.raised THEN it
    ELSE ForEnd(start, varNodes, it,
                parse_statement_block(expect(it.st, <<Pair(TOKEN_PUNCT, ":")>>,
                                             "Expected ':' after for header").st))

\* lines 895-904: the loop variable, `in` and the iterable
ForHeader(start, var) ==
    ForBody(start,
            IF var.val # <<>>
            THEN <<Node("Var", <<var.val[1].value>>, <<>>, var.val[1].lineno)>>
            ELSE <<>>,
            parse_expr(IF current(var.st).type = TOKEN_IDENTIFIER /\ current(var.st).value = "in"
                       THEN advance(var.st)
                       ELSE error(var.st, "Expected 'in' in for loop", current(var.st).lineno)))

parse_for(st0) ==
    LET st == Enter(st0)
        start == expect(st, <<Pair(TOKEN_KEYWORD, "farm")>>, "Expected 'farm' for for-loop")
    IN IF st.raised THEN Raised(st)
       ELSE IF start.val = <<>>
       THEN Ret(start.st, Node("For", <<>>, <<>>, current(start.st).lineno))
       ELSE ForHeader(start.val[1],
                      expect(start.st, <<PairAny(TOKEN_IDENTIFIER)>>, "Expected loop variable"))

RECURSIVE ParamsLoop(_, _)
\* while True (lines 931-937): parameter names separated by commas
ParamsLoop(st, params) ==
    LET p == expect(st, <<PairAny(TOKEN_IDENTIFIER)>>, "Expected parameter name")
        ps == IF p.val # <<>> THEN Append(params, p.val[1].value) ELSE params
    IN IF ~match(p.st, TOKEN_PUNCT, ",")
       THEN [st |-> p.st, val |-> ps]
       ELSE ParamsLoop(advance(p.st), ps)

\* lines 942-945: the FunctionDef node once its body is parsed
FunctionDefEnd(start, name, ps, b) ==
    IF b.st.raised THEN b
    ELSE Ret(b.st, Node("FunctionDef",
                        IF name.val # <<>> THEN <<name.val[1].value>> ELSE <<>>,
                        <<Node("Params", <<>>,
                               [k \in 1..Len(ps.val) |->
                                    Node("Param", <<ps.val[k]>>, <<>>, NoLine)],
                               NoLine),
                          Node("Body", <<>>, b.val, NoLine)>>,
                        start.lineno))

parse_function_def(st0) ==
    LET st == Enter(st0)
        start == expect(st, <<Pair(TOKEN_KEYWORD, "quest")>>, "Expected 'quest' for function def")
        name == expect(start.st, <<PairAny(TOKEN_IDENTIFIER)>>, "Expected function name")
        e1 == expect(name.st, <<Pair(TOKEN_PUNCT, "(")>>, "Expected '(' in function def")
        ps == IF ~match(e1.st, TOKEN_PUNCT, ")")
              THEN ParamsLoop(e1.st, <<>>)
              ELSE [st |-> e1.st, val |-> <<>>]
        e2 == expect(ps.st, <<Pair(TOKEN_PUNCT, ")")>>, "Expected ')' after parameters")
        e3 == expect(e2.st, <<Pair(TOKEN_PUNCT, ":")>>, "Expected ':' after function header")
    IN IF st.raised THEN Raised(st)
       ELSE IF start.val = <<>>
       THEN Ret(start.st, Node("FunctionDef", <<>>, <<>>, current(start.st).lineno))
       ELSE FunctionDefEnd(start.val[1], name, ps, parse_statement_block(e3.st))

\* line 969: the Except node appended to the Try node once its body is parsed
ExceptEnd(l, exc_type, b) ==
    IF b.st.raised THEN b
    ELSE [st |-> b.st,
          val |-> [l.val EXCEPT !.children = Append(@, Node("Except", exc_type, b.val, NoLine))]]

\* lines 965-968: the exception type, if any, `:` and the body
ExceptBody(l, s1) ==
    ExceptEnd(l,
              IF matchType(s1, TOKEN_IDENTIFIER) THEN <<current(s1).value>> ELSE <<>>,
              parse_statement_block(
                  expect(IF matchType(s1, TOKEN_IDENTIFIER) THEN advance(s1) ELSE s1,
                         <<Pair(TOKEN_PUNCT, ":")>>, "Expected ':' after exception type").st))

\* while state.match(TOKEN_KEYWORD, "gameOver") (lines 964-969); the pair
\* is the parser state and the Try node built so far
ExceptLoop(l) ==
    IF l.st.raised THEN l
    ELSE IF match(l.st, TOKEN_KEYWORD, "gameOver")
    THEN ExceptLoop(ExceptBody(l, advance(l.st)))
    ELSE l

\* line 975: the Finally node appended once its body is parsed
TryEnd(ex, f) ==
    IF f.st.raised THEN f
    ELSE Ret(f.st, [ex.val EXCEPT !.children = Append(@, Node("Finally", <<>>, f.val, NoLine))])

\* lines 971-977: the savePoint arm, if any
TryFinally(ex) ==
    IF ex.st.raised THEN ex
    ELSE IF ~match(ex.st, TOKEN_KEYWORD, "savePoint") THEN Ret(ex.st, ex.val)
    ELSE TryEnd(ex, parse_statement_block(expect(advance(ex.st), <<Pair(TOKEN_PUNCT, ":")>>,
                                                 "Expected ':' after savePoint").st))

\* lines 961-969: the Try node with its block, and the gameOver arms
TryExcepts(start, b) ==
    IF b.st.raised THEN b
    ELSE TryFinally(ExceptLoop([st |-> b.st,
                                val |-> Node("Try", <<>>,
                                             <<Node("TryBlock", <<>>, b.val, NoLine)>>,
                                             start.lineno)]))

parse_try_except(st0) ==
    LET st == Enter(st0)
        start == expect(st, <<Pair(TOKEN_KEYWORD, "embark")>>, "Expected 'embark' for try")
    IN IF st.raised THEN Raised(st)
       ELSE IF start.val = <<>>
       THEN Ret(start.st, Node("Try", <<>>, <<>>, current(start.st).lineno))
       ELSE TryExcepts(start.val[1],
                       parse_statement_block(expect(start.st, <<Pair(TOKEN_PUNCT, ":")>>,
                                                    "Expected ':' after embark").st))

\* lines 997-1001: DEDENT after the statements of the block
BlockEnd(stmts) ==
    IF stmts.st.raised THEN stmts
    ELSE Ret(IF ~matchType(stmts.st, TOKEN_DEDENT)
             THEN error(stmts.st, "Expected DEDENT after block", current(stmts.st).lineno)
             ELSE advance(stmts.st),
             stmts.val)

parse_statement_block(st0) ==
    LET st == Enter(st0)
        s1 == IF ~matchType(st, TOKEN_NEWLINE)
              THEN error(st, "Expected NEWLINE before block", current(st).lineno)
              ELSE advance(st)
        s2 == IF ~matchType(s1, TOKEN_INDENT)
              THEN error(s1, "Expected INDENT to start block", current(s1).lineno)
              ELSE s1
        s3 == IF matchType(s2, TOKEN_INDENT) THEN advance(s2) ELSE s2
    IN IF st.raised THEN Raised(st)
       ELSE BlockEnd(parse_statement_list(s3, {TOKEN_DEDENT, TOKEN_EOF}))

\* a statement parser's node as the result of parse_statement: val is
\* <<node>>
ReturnNode(r) == IF r.st.raised THEN r ELSE Ret(r.st, <<r.val>>)

\* KEYWORD_PARSERS: the lambda of the keyword kw applied to the state; val
\* is <<node>>
KeywordParser(kw, st0) ==
    LET st == Enter(st0)
    IN IF st.raised THEN Raised(st)
       ELSE ReturnNode(
                CASE kw = "summon" -> parse_import(st)
                  [] kw = "spot" -> parse_if(st)
                  [] kw = "replay" -> parse_while(st)
                  [] kw = "farm" -> parse_for(st)
                  [] kw = "quest" -> parse_function_def(st)
                  [] kw = "attack" -> parse_output_stmt(st)
                  [] kw = "scout" -> parse_input_stmt(st)
                  [] kw = "embark" -> parse_try_except(st)
                  [] kw = "reward" -> parse_return(st)
                  [] kw = "skipEncounter" ->
                         [st |-> advance(st),
                          val |-> Node("Continue", <<>>, <<>>, current(st).lineno)]
                  [] kw = "escapeDungeon" ->
                         [st |-> advance(st),
                          val |-> Node("Break", <<>>, <<>>, current(st).lineno)])

KEYWORD_PARSERS == {"summon", "spot", "replay", "farm", "quest", "attack", "scout",
                    "embark", "reward", "skipEncounter", "escapeDungeon"}

\* lines 690-699 and 712-718: an expression in statement position must be a call
ExprStatement(cur, ex) ==
    IF ex.st.raised THEN ex
    ELSE IF ex.val.type = "Call"
    THEN Ret(ex.st, <<Node("ExprStmt", <<>>, <<ex.val>>, cur.lineno)>>)
    ELSE IF cur.type = TOKEN_DATATYPE
    THEN Ret(advance(error(ex.st, "Invalid statement: datatype '" \o cur.value
                                      \o "' cannot stand alone", cur.lineno)),
             <<>>)
    ELSE Ret(error(ex.st, "Invalid statement: '" \o cur.value
                              \o "' expression has no effect", cur.lineno),
             <<>>)

\* val is <<node>> for a statement node and <<>> for None
parse_statement(st0) ==
    LET st == Enter(st0)
        cur == current(st)
        next_tok == peek(st, 1)
    IN IF st.raised THEN Raised(st)
       ELSE IF cur.type = TOKEN_COMMENT
       THEN Ret(advance(st), <<Node("Comment", <<cur.value>>, <<>>, cur.lineno)>>)
       ELSE IF cur.type = TOKEN_KEYWORD
       THEN IF cur.value \in KEYWORD_PARSERS
            THEN Return(KeywordParser(cur.value, st))
            ELSE Ret(advance(st), <<Node("KeywordStmt", <<cur.value>>, <<>>, cur.lineno)>>)
       ELSE IF cur.type = TOKEN_DATATYPE
       THEN IF next_tok.type = TOKEN_PUNCT /\ next_tok.value = "("
            THEN ExprStatement(cur, parse_expr(st))
            ELSE Ret(advance(error(st, "Invalid statement: datatype '" \o cur.value
                                           \o "' cannot stand alone", cur.lineno)),
                     <<>>)
       ELSE IF cur.type = TOKEN_IDENTIFIER
       THEN IF next_tok.type = TOKEN_PUNCT /\ next_tok.value = "="
            THEN ReturnNode(parse_assignment(st))
            ELSE IF next_tok.type = TOKEN_OPERATOR /\ next_tok.value \in CompoundOps
            THEN ReturnNode(parse_compound_assignment(st))
            ELSE IF next_tok.type = TOKEN_PUNCT /\ next_tok.value \in {"(", "."}
            THEN ExprStatement(cur, parse_expr(st))
            ELSE Ret(advance(error(st, "Invalid statement: bare identifier '" \o cur.value
                                           \o "' cannot stand alone", cur.lineno)),
                     <<>>)
       ELSE IF cur.type \in {TOKEN_NEWLINE, TOKEN_EOF, TOKEN_DEDENT}
       THEN Ret(st, <<>>)
       ELSE Ret(advance(error(st, "Unexpected token: " \o cur.type \o " ("
                                      \o ValueStr(cur) \o ")", cur.lineno)),
                <<>>)

\* the condition that ends the statement loop (lines 626-628)
AtStop(st, stop_on) ==
    \/ matchType(st, TOKEN_EOF)
    \/ matchType(st, TOKEN_DEDENT)
    \/ current(st).type \in stop_on

\* lines 632-643: after a statement, resynchronise in panic mode, skip the
\* newlines and go on unless at EOF. An iteration that leaves the cursor
\* where it was and does not end the loop would repeat for ever, the
\* parser's decisions depending on the tokens and the cursor only: the
\* model counts it in stalls and goes no further
StatementNext(l, r, stop_on) ==
    IF r.st.raised THEN r
    ELSE LET s1 == IF r.st.panic_mode THEN synchronize(r.st) ELSE r.st
             nxt == [st |-> SkipNewlines(s1), val |-> l.val \o r.val]
         IN IF matchType(nxt.st, TOKEN_EOF) THEN nxt
            ELSE IF nxt.st.i = l.st.i /\ ~AtStop(nxt.st, stop_on)
            THEN [nxt EXCEPT !.st.stalls = @ + 1]
            ELSE StatementLoop(nxt, stop_on)

\* the statement loop (lines 626-643); the pair is the parser state and the
\* statements collected so far
StatementLoop(l, stop_on) ==
    IF l.st.raised THEN l
    ELSE IF AtStop(l.st, stop_on)
    THEN l
    ELSE StatementNext(l, parse_statement(l.st), stop_on)

parse_statement_list(st0, stop_on) ==
    LET st == Enter(st0)
    IN IF st.raised THEN Raised(st)
       ELSE Return(StatementLoop([st |-> SkipNewlines(st), val |-> <<>>], stop_on))

-----------------------------------------------------------------------------
(* parser.py: SymbolTable, datatype_check, semantic_analysis               *)

\* a scope is a function from the names declared in it to IdentifierInfo
EmptyScope == [n \in {} |-> 0]

\* SymbolTable.__init__
SymbolTableInit == <<EmptyScope>>

\* SymbolTable.push_scope that opens two scopes (fault injected to test
\* ScopeStackBalanced)
push_scope_twice(scopes) == Append(Append(scopes, EmptyScope), EmptyScope)

\* SymbolTable.push_scope
push_scope(scopes) == Append(scopes, EmptyScope)

\* SymbolTable.pop_scope that leaves the innermost scope in place (fault
\* injected to test BranchScopeIsolated)
pop_scope_kept(scopes) == scopes

\* SymbolTable.pop_scope
pop_scope(scopes) == IF Len(scopes) > 1 THEN SubSeq(scopes, 1, Len(scopes) - 1) ELSE scopes

\* SymbolTable.declare that writes the outermost scope (fault injected to
\* test ShadowingLeavesOuter)
declare_outermost(scopes, name, dtype, line) ==
    [scopes EXCEPT ![1] =
        [n \in DOMAIN scopes[1] \cup {name} |->
            IF n = name THEN [name |-> name, dtype |-> dtype, line |-> line]
            ELSE scopes[1][n]]]

\* SymbolTable.declare
declare(scopes, name, dtype, line) ==
    LET current_scope == scopes[Len(scopes)]
    IN [scopes EXCEPT ![Len(scopes)] =
           [n \in DOMAIN current_scope \cup {name} |->
               IF n = name THEN [name |-> name, dtype |-> dtype, line |-> line]
               ELSE current_scope[n]]]

RECURSIVE LookupFrom(_, _, _)
LookupFrom(scopes, name, k) ==
    IF k = 0 THEN <<>>
    ELSE IF name \in DOMAIN scopes[k] THEN <<scopes[k][name]>>
    ELSE LookupFrom(scopes, name, k - 1)

\* SymbolTable.lookup: <<info>> from the innermost scope that has the name,
\* <<>> for None
lookup(scopes, name) == LookupFrom(scopes, name, Len(scopes))

ArithOps == {"+", "-", "*", "/", "//", "%", "**"}
OrderOps == {"<", ">", "<=", ">="}
EqualityOps == {"==", "!="}
LogicalOps == {"and", "or"}
\* the numeric types with the boolean type among them (fault injected to
\* test TypeTableAgrees)
NumericOrBoolean == {DATA_TYPE_INT, DATA_TYPE_DOUBLE, DATA_TYPE_BOOL}

Numeric == {DATA_TYPE_INT, DATA_TYPE_DOUBLE}

\* datatype_check(t1, t2, operator); NoneT is the invalid combination
datatype_check(t1, t2, operator) ==
    IF t1 = "unknown" \/ t2 = "unknown" THEN
        IF operator \in ArithOps THEN DATA_TYPE_DOUBLE
        ELSE IF operator \in OrderOps \cup EqualityOps THEN DATA_TYPE_BOOL
        ELSE IF operator \in LogicalOps THEN DATA_TYPE_BOOL
        ELSE "unknown"
    ELSE IF operator = "+" /\ t1 = DATA_TYPE_STRING /\ t2 = DATA_TYPE_STRING THEN DATA_TYPE_STRING
    ELSE IF /\ operator = "*"
            /\ \/ (t1 = DATA_TYPE_STRING /\ t2 = DATA_TYPE_INT)
               \/ (t1 = DATA_TYPE_INT /\ t2 = DATA_TYPE_STRING)
         THEN DATA_TYPE_STRING
    ELSE IF operator \in ArithOps THEN
        IF t1 \in Numeric /\ t2 \in Numeric
        THEN (IF t1 = DATA_TYPE_DOUBLE \/ t2 = DATA_TYPE_DOUBLE
              THEN DATA_TYPE_DOUBLE ELSE DATA_TYPE_INT)
        ELSE NoneT
    ELSE IF operator \in OrderOps THEN
        IF t1 \in Numeric /\ t2 \in Numeric THEN DATA_TYPE_BOOL ELSE NoneT
    ELSE IF operator \in EqualityOps THEN
        IF t1 = t2 THEN DATA_TYPE_BOOL ELSE NoneT
    ELSE IF operator \in LogicalOps THEN
        IF t1 = DATA_TYPE_BOOL /\ t2 = DATA_TYPE_BOOL THEN DATA_TYPE_BOOL ELSE NoneT
    ELSE IF operator = "=" THEN t2
    ELSE NoneT

\* '.' in str(node.value)
HasDot(str) == \E k \in 1..Len(str) : SubSeq(str, k, k) = "."

\* the locals of semantic_analysis that analyze_node closes over, with the
\* call-stack depth as in the parser (semantic_analysis is one frame below
\* parse).  Once raised is set the exception is on its way to the caller of
\* parse: no later call is executed and no diagnostic is recorded.
\* pushes, pops, low and unbalanced are history fields: the calls of
\* push_scope and of pop_scope so far, the smallest number of scopes the
\* stack has held, and the number of statements of a statement list that
\* returned with another stack depth than they started with
SemanticInit ==
    [scopes |-> SymbolTableInit, errors |-> <<>>,
     function_return_types |-> EmptyScope, depth |-> 1, raised |-> FALSE,
     pushes |-> 0, pops |-> 0, low |-> 1, unbalanced |-> 0]

\* symbol_table.push_scope() in analyze_node
PushScope(env) == [env EXCEPT !.scopes = push_scope(@), !.pushes = @ + 1]

\* symbol_table.pop_scope() in analyze_node
PopScope(env) ==
    [env EXCEPT !.scopes = pop_scope(@), !.pops = @ + 1,
                !.low = Min({@, Len(pop_scope(env.scopes))})]

\* the locals after a statement of a statement list that started with before
AfterStatement(before, after) ==
    IF after.raised \/ Len(after.scopes) = Len(before.scopes) THEN after
    ELSE [after EXCEPT !.unbalanced = @ + 1]

\* errors.append((line, msg))
SemError(env, line, msg) ==
    IF env.raised THEN env ELSE [env EXCEPT !.errors = Append(@, <<line, msg>>)]

\* entering analyze_node: one more frame, RecursionError past the limit
SemEnter(env) ==
    IF env.raised THEN env
    ELSE IF env.depth >= RecursionLimit THEN [env EXCEPT !.raised = TRUE]
    ELSE [env EXCEPT !.depth = @ + 1]

\* returning from analyze_node
SemLeave(env) == IF env.raised THEN env ELSE [env EXCEPT !.depth = @ - 1]

\* the result of analyze_node: the node as annotated, the type returned
\* and the locals of semantic_analysis
SemRet(node, type, env) == [node |-> node, type |-> type, env |-> SemLeave(env)]

\* a list of statements left by the exception
Stopped(env) == [val |-> <<>>, env |-> env]

\* lines 168-170 with the target declared all the same, of type unknown
\* (fault injected to test FailedAssignmentChangesNothing)
AssignmentUntypedDeclares(node, env) ==
    SemRet(node, NoneT,
           SemError([env EXCEPT !.scopes = declare(@, node.value[1], "unknown", node.lineno)],
                    node.lineno,
                    "Cannot determine type for assignment to '" \o node.value[1] \o "'"))

\* lines 168-170: the right-hand side of the assignment node has no type
AssignmentUntyped(node, env) ==
    SemRet(node, NoneT,
           SemError(env, node.lineno,
                    "Cannot determine type for assignment to '" \o node.value[1] \o "'"))

CastTypes == {DATA_TYPE_INT, DATA_TYPE_DOUBLE, DATA_TYPE_STRING, DATA_TYPE_BOOL}

RECURSIVE analyze_node(_, _), AnalyzeEach(_, _), AnalyzeBlock(_, _),
          AnalyzeIf(_, _, _, _), AnalyzeElif(_, _, _, _), AnalyzeWhile(_, _, _, _),
          AnalyzeTry(_, _), AnalyzeFunctionBody(_, _, _)

\* `for stmt in ...: analyze_node(stmt)`: val is the annotated list
AnalyzeEach(nodes, env) ==
    IF nodes = <<>> THEN [val |-> <<>>, env |-> env]
    ELSE LET r == analyze_node(Head(nodes), env)
             rest == AnalyzeEach(Tail(nodes), AfterStatement(env, r.env))
         IN IF r.env.raised THEN Stopped(r.env)
            ELSE IF rest.env.raised THEN rest
            ELSE [val |-> <<r.node>> \o rest.val, env |-> rest.env]

\* push_scope(); analyse the statements; pop_scope()
AnalyzeBlock(nodes, env) ==
    LET r == AnalyzeEach(nodes, PushScope(env))
    IN IF r.env.raised THEN r
       ELSE [val |-> r.val, env |-> PopScope(r.env)]

\* a condition holder (Condition node): its expression is analysed and must
\* be boolean; msg is the prefix of the diagnostic, line its line
AnalyzeCondition(child, env, line, msg) ==
    IF child.children = <<>> THEN [node |-> child, env |-> env]
    ELSE LET r == analyze_node(child.children[1], env)
         IN IF r.env.raised THEN [node |-> child, env |-> r.env]
            ELSE [node |-> [child EXCEPT !.children[1] = r.node],
                  env |-> IF r.type # NoneT /\ r.type # DATA_TYPE_BOOL
                          THEN SemError(r.env, line, msg \o r.type)
                          ELSE r.env]

\* the children of an Elif node (lines 206-215), from child k on
AnalyzeElif(children, k, env, line) ==
    IF env.raised \/ k > Len(children) THEN [val |-> children, env |-> env]
    ELSE LET sub == children[k]
         IN IF sub.type = "Condition" /\ sub.children # <<>>
            THEN LET c == AnalyzeCondition(sub, env, line, "Elif condition must be boolean, got ")
                 IN AnalyzeElif([children EXCEPT ![k] = c.node], k + 1, c.env, line)
            ELSE IF sub.type = "Body"
            THEN LET b == AnalyzeBlock(sub.children, env)
                 IN AnalyzeElif([children EXCEPT ![k] = [sub EXCEPT !.children = b.val]],
                                k + 1, b.env, line)
            ELSE AnalyzeElif(children, k + 1, env, line)

\* the children of an If node (lines 190-221), from child k on
AnalyzeIf(children, k, env, line) ==
    IF env.raised \/ k > Len(children) THEN [val |-> children, env |-> env]
    ELSE LET child == children[k]
         IN IF child.type = "Condition"
            THEN LET c == AnalyzeCondition(child, env, line, "Condition must be boolean, got ")
                 IN AnalyzeIf([children EXCEPT ![k] = c.node], k + 1, c.env, line)
            ELSE IF child.type \in {"Then", "Else"}
            THEN LET b == AnalyzeBlock(child.children, env)
                 IN AnalyzeIf([children EXCEPT ![k] = [child EXCEPT !.children = b.val]],
                              k + 1, b.env, line)
            ELSE IF child.type = "Elif"
            THEN LET e == AnalyzeElif(child.children, 1, env, line)
                 IN AnalyzeIf([children EXCEPT ![k] = [child EXCEPT !.children = e.val]],
                              k + 1, e.env, line)
            ELSE AnalyzeIf(children, k + 1, env, line)

\* the children of a While node (lines 227-238), from child k on
AnalyzeWhile(children, k, env, line) ==
    IF env.raised \/ k > Len(children) THEN [val |-> children, env |-> env]
    ELSE LET child == children[k]
         IN IF child.type = "Condition"
            THEN LET c == AnalyzeCondition(child, env, line,
                                           "While condition must be boolean, got ")
                 IN AnalyzeWhile([children EXCEPT ![k] = c.node], k + 1, c.env, line)
            ELSE IF child.type = "Body"
            THEN LET b == AnalyzeBlock(child.children, env)
                 IN AnalyzeWhile([children EXCEPT ![k] = [child EXCEPT !.children = b.val]],
                                 k + 1, b.env, line)
            ELSE AnalyzeWhile(children, k + 1, env, line)

\* the children of a Try node (lines 322-339)
AnalyzeTry(children, env) ==
    IF env.raised \/ children = <<>> THEN Stopped(env)
    ELSE LET child == Head(children)
             b == IF child.type \in {"TryBlock", "Except", "Finally"}
                  THEN AnalyzeBlock(child.children, env)
                  ELSE [val |-> child.children, env |-> env]
             rest == AnalyzeTry(Tail(children), b.env)
         IN [val |-> <<[child EXCEPT !.children = b.val]>> \o rest.val, env |-> rest.env]

\* lines 299-302: the body of a function; type is the dtype of the last
\* top-level Return statement that has one
AnalyzeFunctionBody(stmts, env, return_type) ==
    IF env.raised \/ stmts = <<>> THEN [val |-> <<>>, env |-> env, type |-> return_type]
    ELSE LET r == analyze_node(Head(stmts), env)
             rt == IF r.node.type = "Return" /\ r.node.dtype # NoneT
                   THEN r.node.dtype ELSE return_type
             rest == AnalyzeFunctionBody(Tail(stmts), AfterStatement(env, r.env), rt)
         IN [val |-> <<r.node>> \o rest.val, env |-> rest.env, type |-> rest.type]

RECURSIVE DeclareAll(_, _, _, _)
DeclareAll(scopes, names, dtype, line) ==
    IF names = <<>> THEN scopes
    ELSE DeclareAll(declare(scopes, Head(names), dtype, line), Tail(names), dtype, line)

\* the children of kind ntype among children, in order
ChildrenOfType(children, ntype) == SelectSeq(children, LAMBDA c : c.type = ntype)

\* the last child of kind ntype: <<child>> or <<>>
LastOfType(children, ntype) ==
    LET cs == ChildrenOfType(children, ntype)
    IN IF cs = <<>> THEN <<>> ELSE <<cs[Len(cs)]>>

RECURSIVE ConcatChildren(_)
\* the children of the nodes of a list, in order
ConcatChildren(nodes) ==
    IF nodes = <<>> THEN <<>> ELSE Head(nodes).children \o ConcatChildren(Tail(nodes))

RECURSIVE ValuesOf(_)
\* the values of the nodes of a list, in order
ValuesOf(nodes) == IF nodes = <<>> THEN <<>> ELSE Head(nodes).value \o ValuesOf(Tail(nodes))

\* 1-based index of the last child of kind ntype, 0 when there is none
LastIndexOfType(children, ntype) ==
    LET ks == {k \in 1..Len(children) : children[k].type = ntype}
    IN IF ks = {} THEN 0 ELSE CHOOSE k \in ks : \A j \in ks : j <= k

RECURSIVE AnalyzeIters(_, _, _)
\* lines 248-255: the Iter children of a For node have their expression analysed
AnalyzeIters(children, k, env) ==
    IF env.raised \/ k > Len(children) THEN [val |-> children, env |-> env]
    ELSE IF children[k].type = "Iter" /\ children[k].children # <<>>
    THEN LET r == analyze_node(children[k].children[1], env)
         IN AnalyzeIters([children EXCEPT ![k].children[1] = r.node], k + 1, r.env)
    ELSE AnalyzeIters(children, k + 1, env)

\* analyze_node(node) of semantic_analysis
analyze_node(node, env0) ==
    LET env == SemEnter(env0)
        ntype == node.type
    IN
    CASE env0.raised -> SemRet(node, NoneT, env0)
      [] ntype = "Program" ->
        LET r == AnalyzeEach(node.children, env)
        IN IF r.env.raised THEN SemRet(node, NoneT, r.env)
           ELSE SemRet([node EXCEPT !.children = r.val], NoneT, r.env)
      [] ntype = "Comment" -> SemRet(node, NoneT, env)
      [] ntype = "Import" ->
        SemRet(node, NoneT,
               [env EXCEPT !.scopes = DeclareAll(@, ValuesOf(ChildrenOfType(node.children, "Module")),
                                                 "module", node.lineno)])
      [] ntype = "Assignment" ->
        IF node.value = <<>> \/ node.children = <<>> THEN SemRet(node, NoneT, env)
        ELSE LET r == analyze_node(node.children[1], env)
                 n1 == [node EXCEPT !.children[1] = r.node]
                 var_name == node.value[1]
             IN IF r.env.raised THEN r
                ELSE IF r.type = NoneT
                THEN AssignmentUntyped(n1, r.env)
                ELSE SemRet([n1 EXCEPT !.dtype = r.type], r.type,
                            [r.env EXCEPT !.scopes = declare(@, var_name, r.type, node.lineno)])
      [] ntype = "Input" ->
        SemRet([node EXCEPT !.dtype = DATA_TYPE_STRING], DATA_TYPE_STRING, env)
      [] ntype = "Output" ->
        LET r == AnalyzeEach(node.children, env)
        IN IF r.env.raised THEN SemRet(node, NoneT, r.env)
           ELSE SemRet([node EXCEPT !.children = r.val], NoneT, r.env)
      [] ntype = "If" ->
        LET r == AnalyzeIf(node.children, 1, env, node.lineno)
        IN IF r.env.raised THEN SemRet(node, NoneT, r.env)
           ELSE SemRet([node EXCEPT !.children = r.val], NoneT, r.env)
      [] ntype = "While" ->
        LET r == AnalyzeWhile(node.children, 1, env, node.lineno)
        IN IF r.env.raised THEN SemRet(node, NoneT, r.env)
           ELSE SemRet([node EXCEPT !.children = r.val], NoneT, r.env)
      [] ntype = "For" ->
        LET var == LastOfType(node.children, "Var")
            it == AnalyzeIters(node.children, 1, env)
            bk == LastIndexOfType(node.children, "Body")
            body_stmts == IF bk = 0 THEN <<>> ELSE node.children[bk].children
            pushed == PushScope(it.env)
            declared == IF var # <<>> /\ var[1].value # <<>>
                        THEN [pushed EXCEPT !.scopes = declare(@, var[1].value[1],
                                                               DATA_TYPE_STRING, node.lineno)]
                        ELSE pushed
            b == AnalyzeEach(body_stmts, declared)
            kids == IF bk = 0 THEN it.val ELSE [it.val EXCEPT ![bk].children = b.val]
        IN IF it.env.raised THEN SemRet(node, NoneT, it.env)
           ELSE IF b.env.raised THEN SemRet(node, NoneT, b.env)
           ELSE SemRet([node EXCEPT !.children = kids], NoneT,
                       PopScope(b.env))
      [] ntype = "FunctionDef" ->
        LET ps == ChildrenOfType(node.children, "Params")
            params == ValuesOf(ChildrenOfType(ConcatChildren(ps), "Param"))
            bk == LastIndexOfType(node.children, "Body")
            body_stmts == IF bk = 0 THEN <<>> ELSE node.children[bk].children
            s1 == IF node.value # <<>>
                  THEN declare(env.scopes, node.value[1], "function", node.lineno)
                  ELSE env.scopes
            s2 == [PushScope([env EXCEPT !.scopes = s1]) EXCEPT
                      !.scopes = DeclareAll(@, params, "unknown", node.lineno)]
            b == AnalyzeFunctionBody(body_stmts, s2, NoneT)
            e1 == PopScope(b.env)
            e2 == IF node.value # <<>> /\ b.type # NoneT
                  THEN [e1 EXCEPT !.function_return_types =
                           [n \in DOMAIN @ \cup {node.value[1]} |->
                               IF n = node.value[1] THEN b.type ELSE @[n]]]
                  ELSE e1
            kids == IF bk = 0 THEN node.children ELSE [node.children EXCEPT ![bk].children = b.val]
        IN IF b.env.raised THEN SemRet(node, NoneT, b.env)
           ELSE SemRet([node EXCEPT !.children = kids], NoneT, e2)
      [] ntype = "Return" ->
        IF node.children # <<>>
        THEN LET r == analyze_node(node.children[1], env)
             IN IF r.env.raised THEN r
                ELSE SemRet([node EXCEPT !.children[1] = r.node, !.dtype = r.type],
                            r.type, r.env)
        ELSE SemRet(node, NoneT, env)
      [] ntype = "Try" ->
        LET r == AnalyzeTry(node.children, env)
        IN IF r.env.raised THEN SemRet(node, NoneT, r.env)
           ELSE SemRet([node EXCEPT !.children = r.val], NoneT, r.env)
      [] ntype \in {"Continue", "Break"} -> SemRet(node, NoneT, env)
      [] ntype = "ExprStmt" ->
        IF node.children # <<>>
        THEN LET r == analyze_node(node.children[1], env)
             IN IF r.env.raised THEN r
                ELSE SemRet([node EXCEPT !.children[1] = r.node], r.type, r.env)
        ELSE SemRet(node, NoneT, env)
      [] ntype = "BinaryOp" ->
        IF Len(node.children) < 2 THEN SemRet(node, NoneT, env)
        ELSE LET l == analyze_node(node.children[1], env)
                 r == analyze_node(node.children[2], l.env)
                 n1 == [node EXCEPT !.children[1] = l.node, !.children[2] = r.node]
                 operator == node.value[1]
                 result_type == datatype_check(l.type, r.type, operator)
             IN IF l.env.raised THEN l
                ELSE IF r.env.raised THEN r
                ELSE IF l.type = NoneT \/ r.type = NoneT THEN SemRet(n1, NoneT, r.env)
                ELSE IF result_type = NoneT
                THEN SemRet(n1, NoneT,
                            SemError(r.env, node.lineno,
                                     "Type mismatch: cannot apply '" \o operator \o "' to "
                                         \o l.type \o " and " \o r.type))
                ELSE SemRet([n1 EXCEPT !.dtype = result_type], result_type, r.env)
      [] ntype = "UnaryOp" ->
        IF node.children = <<>> THEN SemRet(node, NoneT, env)
        ELSE LET r == analyze_node(node.children[1], env)
                 n1 == [node EXCEPT !.children[1] = r.node]
                 operator == node.value[1]
             IN IF r.env.raised THEN r
                ELSE IF operator = "not"
                THEN IF r.type # DATA_TYPE_BOOL
                     THEN SemRet(n1, NoneT,
                                 SemError(r.env, node.lineno,
                                          "'not' operator requires boolean, got " \o r.type))
                     ELSE SemRet([n1 EXCEPT !.dtype = DATA_TYPE_BOOL], DATA_TYPE_BOOL, r.env)
                ELSE IF operator \in {"+", "-"}
                THEN IF r.type \notin Numeric
                     THEN SemRet(n1, NoneT,
                                 SemError(r.env, node.lineno,
                                          "Unary '" \o operator \o "' requires numeric type, got "
                                              \o r.type))
                     ELSE SemRet([n1 EXCEPT !.dtype = r.type], r.type, r.env)
                ELSE SemRet(n1, NoneT, r.env)
      [] ntype = "Identifier" ->
        LET var_name == node.value[1]
            info == lookup(env.scopes, var_name)
        IN IF var_name \in CastTypes
           THEN SemRet([node EXCEPT !.dtype = var_name], var_name, env)
           ELSE IF info = <<>>
           THEN SemRet(node, NoneT,
                       SemError(env, node.lineno, "Undeclared variable '" \o var_name \o "'"))
           ELSE SemRet([node EXCEPT !.dtype = info[1].dtype], info[1].dtype, env)
      [] ntype = "Number" ->
        IF HasDot(node.value[1])
        THEN SemRet([node EXCEPT !.dtype = DATA_TYPE_DOUBLE], DATA_TYPE_DOUBLE, env)
        ELSE SemRet([node EXCEPT !.dtype = DATA_TYPE_INT], DATA_TYPE_INT, env)
      [] ntype = "String" ->
        SemRet([node EXCEPT !.dtype = DATA_TYPE_STRING], DATA_TYPE_STRING, env)
      [] ntype = "Literal" ->
        SemRet([node EXCEPT !.dtype = DATA_TYPE_BOOL], DATA_TYPE_BOOL, env)
      [] ntype = "Call" ->
        IF node.children = <<>> THEN SemRet(node, NoneT, env)
        ELSE LET f == analyze_node(node.children[1], env)
                 func_node == node.children[1]
                 args == AnalyzeEach(Tail(node.children), f.env)
                 n1 == [node EXCEPT !.children = <<f.node>> \o args.val]
             IN IF f.env.raised THEN f
                ELSE IF args.env.raised THEN SemRet(node, NoneT, args.env)
                ELSE IF func_node.type = "Identifier" /\ func_node.value[1] \in CastTypes
                THEN SemRet([n1 EXCEPT !.dtype = func_node.value[1]], func_node.value[1], args.env)
                ELSE IF func_node.type = "Identifier" /\ f.type = "function"
                THEN IF func_node.value[1] \in DOMAIN args.env.function_return_types
                     THEN LET t == args.env.function_return_types[func_node.value[1]]
                          IN SemRet([n1 EXCEPT !.dtype = t], t, args.env)
                     ELSE SemRet([n1 EXCEPT !.dtype = "unknown"], "unknown", args.env)
                ELSE SemRet(n1, NoneT, args.env)
      [] ntype = "Attribute" ->
        IF node.children # <<>>
        THEN LET r == analyze_node(node.children[1], env)
             IN IF r.env.raised THEN r
                ELSE SemRet([node EXCEPT !.children[1] = r.node], NoneT, r.env)
        ELSE SemRet(node, NoneT, env)
      [] OTHER -> SemRet(node, NoneT, env)

\* semantic_analysis(ast_root): the annotated root, the errors, whether the
\* call raised instead of returning, and its locals at that point
SemanticResult(r) ==
    [root |-> r.node, errors |-> r.env.errors, raised |-> r.env.raised, locals |-> r.env]

semantic_analysis(ast_root) == SemanticResult(analyze_node(ast_root, SemanticInit))

\* parse(tokens), lines 587-591: the Program node of the statements, or the
\* handler of the try: the exception is recorded at the current token and
\* the root keeps no statement
Program(r) ==
    IF r.st.raised
    THEN [state |-> error(r.st, "Internal parser error: maximum recursion depth exceeded",
                          current(r.st).lineno),
          root |-> Node("Program", <<>>, <<>>, 1)]
    ELSE [state |-> r.st, root |-> Node("Program", <<>>, r.val, 1)]

\* parse(tokens), lines 583-591: the statement list under the try/except
ParseTree(toks) == Program(parse_statement_list(ParserStateInit(toks), {TOKEN_EOF}))

\* line 597 with the operands exchanged: the semantic diagnostics first
\* (fault injected to test ParseDiagnosticsFirst)
CombineSemanticFirst(parse_errors, sem_errors) == sem_errors \o parse_errors

\* parse(tokens), line 597: all_errors = state.errors + semantic_errors
CombineErrors(parse_errors, sem_errors) == parse_errors \o sem_errors

\* parse(tokens), lines 593-599: what the caller gets back, if anything
ParseReturn(p, sem) ==
    IF sem.raised
    THEN [outcome |-> "raised", root |-> p.root, errors |-> p.state.errors]
    ELSE [outcome |-> "returned", root |-> sem.root,
          errors |-> CombineErrors(p.state.errors, sem.errors)]

\* the semantic pass on the tree p of ParseTree
Analysed(p) == ParseReturn(p, semantic_analysis(p.root))

\* parse(tokens)
parse(toks) == Analysed(ParseTree(toks))

-----------------------------------------------------------------------------
(* Source texts the pipeline is run on                                     *)

RECURSIVE Concat(_)
\* the strings of a sequence, one after the other (by halves, to keep the
\* evaluation shallow)
Concat(strs) ==
    IF strs = <<>> THEN ""
    ELSE IF Len(strs) = 1 THEN strs[1]
    ELSE Concat(SubSeq(strs, 1, Len(strs) \div 2))
             \o Concat(SubSeq(strs, Len(strs) \div 2 + 1, Len(strs)))

\* str * n
Rep(str, n) == Concat([k \in 1..n |-> str])

\* all sequences over set of length lo..hi
SeqsOf(set, lo, hi) == UNION {[1..n -> set] : n \in lo..hi}

MaxChain == 4
MaxValid == 3
MaxLines == 4
MaxDepth == 2
MaxAtoms == 3
MaxInner == 2

NumberLits == {"2", "3.5"}

\* x = a op b * c
PrecInputs ==
    {[family |-> "prec", a |-> a, op |-> op, b |-> b, c |-> c,
      text |-> "x = " \o a \o " " \o op \o " " \o b \o " * " \o c \o "\n"] :
        a \in NumberLits, op \in {"+", "-"}, b \in NumberLits, c \in NumberLits}

\* x = o1 ** o2 ** ... ** on
ExpInputs ==
    {[family |-> "exp", operands |-> os,
      text |-> "x = " \o os[1] \o Concat([k \in 1..(Len(os) - 1) |-> " ** " \o os[k + 1]])
                   \o "\n"] :
        os \in SeqsOf(NumberLits, 2, MaxChain)}

\* statements no rule of parse_statement accepts
Malformed == {"x y z", ")", "x = )", "x y", "1 2", "x = 1 2", "attack(1", "spot"}

\* one malformed statement, then n well-formed ones
PanicInputs ==
    {[family |-> "panic", bad |-> m, n |-> n,
      text |-> m \o "\n" \o Rep("y = 1\n", n)] :
        m \in Malformed, n \in 0..MaxValid}

\* literal operands of incompatible types under the operator
Incompatible ==
    {[l |-> "\"text\"", lt |-> "scroll", op |-> "-", r |-> "5", rt |-> "potion"],
     [l |-> "\"text\"", lt |-> "scroll", op |-> "+", r |-> "5", rt |-> "potion"],
     [l |-> "\"a\"", lt |-> "scroll", op |-> "/", r |-> "5", rt |-> "potion"],
     [l |-> "true", lt |-> "fate", op |-> "*", r |-> "2.5", rt |-> "elixir"],
     [l |-> "1", lt |-> "potion", op |-> "==", r |-> "2.5", rt |-> "elixir"],
     [l |-> "1", lt |-> "potion", op |-> "and", r |-> "true", rt |-> "fate"],
     [l |-> "\"a\"", lt |-> "scroll", op |-> "<", r |-> "\"b\"", rt |-> "scroll"]}

\* the operation as the right-hand side of an assignment or as the argument
\* of attack
MismatchInputs ==
    {[family |-> "mismatch", case |-> c, ctx |-> ctx,
      text |-> (IF ctx = "assign" THEN "x = " ELSE "attack(")
                   \o c.l \o " " \o c.op \o " " \o c.r
                   \o (IF ctx = "assign" THEN "\n" ELSE ")\n")] :
        c \in Incompatible, ctx \in {"assign", "attack"}}

\* a function returning `a op b`, called with (a1, a2) and then with (b1, b2)
ReinferInputs ==
    {[family |-> "reinfer", op |-> op, first |-> f, second |-> g,
      text |-> "quest f(a, b):\n    reward a " \o op \o " b\n"
                   \o "x = f(" \o f[1] \o ", " \o f[2] \o ")\n"
                   \o "y = f(" \o g[1] \o ", " \o g[2] \o ")\n"] :
        op \in {"+", "-", "*", "%"},
        f \in {<<"1", "2">>, <<"1", "2.5">>},
        g \in {<<"1", "2">>, <<"1", "2.5">>, <<"1.5", "2.5">>}}

\* a name first assigned in one arm of an if, then read after the if; the
\* if is at the top level or in the body of a loop
ScopeInputs ==
    {[family |-> "scope", arm |-> arm, ref |-> ref, outer |-> outer,
      text |-> LET pad == IF outer = "loop" THEN "    " ELSE ""
               IN (IF outer = "loop" THEN "replay (true):\n" ELSE "")
                   \o pad \o "spot (true):\n"
                   \o pad \o (IF arm = "then" THEN "    y = 1\n" ELSE "    a = 1\n")
                   \o (IF arm = "elif" THEN pad \o "counter (true):\n" \o pad \o "    y = 1\n"
                       ELSE "")
                   \o (IF arm = "else" THEN pad \o "dodge:\n" \o pad \o "    y = 1\n" ELSE "")
                   \o pad \o (IF ref = "attack" THEN "attack(y)\n" ELSE "w = y\n")] :
        arm \in {"then", "elif", "else"}, ref \in {"attack", "assign"},
        outer \in {"top", "loop"}}

\* the strings one nesting level is indented with
UnitStrings == {" ", "  ", "\t"}

\* IndentLen of a unit string
UnitWidth(u) == IndentLen(Chars(u))

\* a program whose k-th line is at nesting depth depths[k], indented with unit
Render(depths, unit) == Concat([k \in 1..Len(depths) |-> Rep(unit, depths[k]) \o "x = 1\n"])

IndentInputs ==
    {[family |-> "indent", depths |-> d, unit |-> u, text |-> Render(d, u)] :
        d \in SeqsOf(0..MaxDepth, 1, MaxLines), u \in UnitStrings}

\* short texts over pieces that exercise the scanner's special cases
Atoms == {"x = 1", "\n", "  ", "\"\"\"", "@", "-", "("}

FuzzInputs ==
    {[family |-> "fuzz", atoms |-> a, text |-> Concat(a)] : a \in SeqsOf(Atoms, 0, MaxAtoms)}

\* programs every rule accepts
ValidTexts ==
    {"summon math\nx = 1 --> one\n--> note\n\ny = x * 2.5\nattack(x, y)\n",
     "quest f(a):\n    reward a * 2\nz = f(1)\nf(2)\n",
     "x = 0\nreplay (x < 3):\n    x = x * 2\n    spot (x == 2):\n        escapeDungeon\n",
     "embark:\n    x = 1 / 2\ngameOver Err:\n    attack(\"e\")\nsavePoint:\n    attack(\"f\")\n",
     "farm i in \"abc\":\n\tattack(i)\n\tskipEncounter\n",
     "x = scout(\"n\")\ny = potion(x) % 2\nb = not (y == 1) or true\n",
     "t = \"\"\"a\nb\"\"\"\nu = -1\n",
     "dodge\nx = (1)\n"}

ValidInputs == {[family |-> "valid", text |-> t] : t \in ValidTexts}

\* expressions nested deeper than the interpreter's stack allows: a chain
\* of multiplications (a tree one level deeper per operator, parsed by a
\* loop) and nested parentheses (parsed by recursion)
DeepInputs ==
    {[family |-> "deep", kind |-> "chain",
      text |-> "x = 1" \o Rep(" * 1", RecursionLimit) \o "\n"],
     [family |-> "deep", kind |-> "parens",
      text |-> "x = " \o Rep("(", RecursionLimit) \o "1" \o Rep(")", RecursionLimit)
                   \o "\ny = 2\n"]}

\* statements the parser accepts and the semantic pass reports
Unsound == {"w = y", "attack(true * 2.5)", "x = \"a\" / 5"}

\* a statement with a semantic fault and a malformed statement, in either order
OrderInputs ==
    {[family |-> "order", sem |-> u, bad |-> m, first |-> f,
      text |-> IF f = "sem" THEN u \o "\n" \o m \o "\n" ELSE m \o "\n" \o u \o "\n"] :
        u \in Unsound, m \in Malformed, f \in {"sem", "bad"}}

\* the compound operators parse_statement dispatches on (lines 702-703)
DispatchedCompoundOps == {"+=", "-=", "*=", "/=", "%=", "**="}

\* x OP= expr, after declarations of x and y
CompoundInputs ==
    {[family |-> "compound", op |-> op, rhs |-> e,
      text |-> "x = 5\ny = 1\nx " \o op \o " " \o e \o "\n"] :
        op \in DispatchedCompoundOps, e \in {"1", "y * 2", "2 ** 3"}}

\* `before` lines of code, a line that opens a triple-quoted string, `inner`
\* lines, a line that closes the string (or none), `after` lines of code
TripleInputs ==
    {[family |-> "triple", before |-> b, inner |-> m, closed |-> c, after |-> a,
      text |-> Rep("a = 1\n", b) \o "t = \"\"\"s\n" \o Rep("w = 2\n", m)
                   \o (IF c THEN "e\"\"\"\n" ELSE "") \o Rep("u = 1\n", a)] :
        b \in 0..1, m \in 0..MaxInner, c \in BOOLEAN, a \in 0..MaxInner}

\* compound statements cut short after their keyword
Truncated == {"quest", "spot x", "farm", "replay", "embark", "quest f(", "spot (x"}

\* a truncated statement, then n well-formed ones
TruncatedInputs ==
    {[family |-> "truncated", bad |-> m, n |-> n,
      text |-> m \o "\n" \o Rep("y = 1\n", n)] :
        m \in Truncated, n \in 0..MaxValid}

\* a statement that raises the panic flag without consuming a token (an
\* attribute access used as a statement), then a keyword on the same line
SyncInputs ==
    {[family |-> "sync", kw |-> k, text |-> "x.y " \o k \o " z\ny = 1\n"] :
        k \in KEYWORDS}

\* the headers of the blocks that open a scope; "handlers" is a try whose
\* except and finally blocks hold the statements
BlockHeader(block) ==
    CASE block = "replay" -> "replay (true):\n"
      [] block = "spot" -> "spot (true):\n"
      [] block = "farm" -> "farm i in \"ab\":\n"
      [] block = "embark" -> "embark:\n"
      [] block = "quest" -> "quest f():\n"
      [] block = "handlers" -> "embark:\n    y = 1\ngameOver:\n"

Blocks == {"replay", "spot", "farm", "embark", "quest", "handlers"}

InnerValues ==
    {[lit |-> "\"a\"", type |-> "scroll"], [lit |-> "2.5", type |-> "elixir"],
     [lit |-> "true", type |-> "fate"]}

\* x is assigned a number, assigned again inside a block and read there (z),
\* and read after the block (w)
ShadowInputs ==
    {[family |-> "shadow", block |-> b, inner |-> v,
      text |-> "x = 1\n" \o BlockHeader(b)
                   \o "    x = " \o v.lit \o "\n    z = x\n"
                   \o (IF b = "handlers"
                       THEN "savePoint:\n    x = " \o v.lit \o "\n    z = x\n" ELSE "")
                   \o "w = x\n"] :
        b \in Blocks, v \in InnerValues}

\* the operands of the binary operations: a literal of each primitive type
\* and the parameter a of the enclosing function, of type unknown
Operands ==
    {[lit |-> "1", type |-> "potion"], [lit |-> "2.5", type |-> "elixir"],
     [lit |-> "\"s\"", type |-> "scroll"], [lit |-> "true", type |-> "fate"],
     [lit |-> "a", type |-> "unknown"]}

BinaryOperators ==
    {"+", "-", "*", "/", "//", "%", "**", "<", ">", "<=", ">=", "==", "!=", "and", "or"}

\* a function of one parameter that returns `l op r`
OpsInputs ==
    {[family |-> "ops", l |-> l, op |-> op, r |-> r,
      text |-> "quest f(a):\n    reward " \o l.lit \o " " \o op \o " " \o r.lit \o "\n"] :
        l \in Operands, op \in BinaryOperators, r \in Operands}

\* a function of one parameter that reads it (z) and returns a value of
\* one type, at the top of its body ("flat") or inside a block of it, and
\* then, except when later is "none", a value of another type at the top
\* of its body; then a call of the function (x) and a read of the
\* parameter's name outside the function (y)
ReturnInputs ==
    {[family |-> "returns", first |-> v, place |-> p, later |-> w,
      text |-> "quest f(a):\n    z = a\n"
                   \o (IF p = "flat" THEN "    reward " \o v.lit \o "\n"
                       ELSE "    " \o BlockHeader(p) \o "        reward " \o v.lit \o "\n")
                   \o (IF w = "none" THEN "" ELSE "    reward " \o w \o "\n")
                   \o "x = f(1)\ny = a\n"] :
        v \in InnerValues, p \in {"flat", "spot", "replay"}, w \in {"none", "1"}}

\* the places a literal can stand in
LiteralContext(ctx, lit) ==
    CASE ctx = "attack" -> "attack(" \o lit \o ")\n"
      [] ctx = "scout" -> "scout(" \o lit \o ")\n"
      [] ctx = "assign_scout" -> "x = scout(" \o lit \o ")\n"
      [] ctx = "call" -> "quest f(a):\n    reward 1\nx = f(" \o lit \o ")\n"
      [] ctx = "farm" -> "farm i in " \o lit \o ":\n    x = 1\n"
      [] ctx = "cast" -> "x = scroll(" \o lit \o ")\n"
      [] ctx = "condition" -> "replay (" \o lit \o "):\n    x = 1\n"

LiteralContexts == {"attack", "scout", "assign_scout", "call", "farm", "cast", "condition"}

\* a literal of each primitive type in each of these places
TagInputs ==
    {[family |-> "tags", ctx |-> c, lit |-> v, text |-> LiteralContext(c, v.lit)] :
        c \in LiteralContexts, v \in Operands \ {[lit |-> "a", type |-> "unknown"]}}

\* right-hand sides that cannot be typed: an undeclared name, an
\* incompatible operation, an attribute access
Untypable == {"y", "\"s\" * true", "q.r"}

\* an assignment to x whose right-hand side cannot be typed, x being
\* declared before it or not, then a well-formed assignment (z) and a read
\* of x (w)
FailedInputs ==
    {[family |-> "failed", declared |-> d, rhs |-> r,
      text |-> (IF d THEN "x = 1\n" ELSE "") \o "x = " \o r \o "\nz = 2.5\nw = x\n"] :
        d \in BOOLEAN, r \in Untypable}

Inputs == SyncInputs \cup FailedInputs \cup TagInputs \cup ReturnInputs \cup OpsInputs \cup ShadowInputs \cup PrecInputs \cup ExpInputs \cup PanicInputs \cup MismatchInputs \cup ReinferInputs
              \cup ScopeInputs \cup IndentInputs \cup FuzzInputs \cup ValidInputs \cup DeepInputs
              \cup OrderInputs \cup CompoundInputs \cup TripleInputs \cup TruncatedInputs

-----------------------------------------------------------------------------
(* The pipeline                                                            *)

Init ==
    /\ input \in Inputs
    /\ source_text = input.text
    /\ pc = "start"
    /\ lines = <<>>
    /\ tokens = ScanInit.tokens
    /\ indent_stack = ScanInit.indent_stack
    /\ indent_unit = ScanInit.indent_unit
    /\ line_no = ScanInit.line_no
    /\ state = ParserStateInit(<<>>)
    /\ root = Node("Program", <<>>, <<>>, 1)
    /\ semantic_errors = <<>>
    /\ all_errors = <<>>
    /\ outcome = "running"

\* scan_source, lines 115-175: split the text and merge multi-line strings
MergeLines ==
    /\ pc = "start"
    /\ lines' = processed_lines(Chars(source_text))
    /\ pc' = "scan"
    /\ UNCHANGED <<input, source_text, tokens, indent_stack, indent_unit, line_no,
                   state, root, semantic_errors, all_errors, outcome>>

\* scan_source, lines 177-365: one iteration of `for raw_line in lines`
ScanNextLine ==
    /\ pc = "scan"
    /\ lines # <<>>
    /\ \E sc \in {ScanLine([tokens |-> tokens, indent_stack |-> indent_stack,
                            indent_unit |-> indent_unit, line_no |-> line_no], Head(lines))} :
          /\ tokens' = sc.tokens
          /\ indent_stack' = sc.indent_stack
          /\ indent_unit' = sc.indent_unit
          /\ line_no' = sc.line_no
    /\ lines' = Tail(lines)
    /\ UNCHANGED <<input, source_text, pc, state, root, semantic_errors, all_errors,
                   outcome>>

\* scan_source, lines 367-373: close the open blocks, append EOF and return
ScanFinish ==
    /\ pc = "scan"
    /\ lines = <<>>
    /\ \E sc \in {Finalize([tokens |-> tokens, indent_stack |-> indent_stack,
                            indent_unit |-> indent_unit, line_no |-> line_no])} :
          /\ tokens' = sc.tokens
          /\ indent_stack' = sc.indent_stack
    /\ pc' = "parse"
    /\ UNCHANGED <<input, source_text, lines, indent_unit, line_no, state, root,
                   semantic_errors, all_errors, outcome>>

\* parse, lines 583-591: build the tree; an exception is turned into a diagnostic
ParseStatements ==
    /\ pc = "parse"
    /\ \E p \in {ParseTree(tokens)} :
          /\ state' = p.state
          /\ root' = p.root
    /\ pc' = "semantic"
    /\ UNCHANGED <<input, source_text, lines, tokens, indent_stack, indent_unit, line_no,
                   semantic_errors, all_errors, outcome>>

\* parse, lines 593-599: the semantic pass, outside the try, and the return
SemanticPass ==
    /\ pc = "semantic"
    /\ \E sem \in {semantic_analysis(root)} :
          IF sem.raised
          THEN /\ outcome' = "raised"
               /\ UNCHANGED <<root, semantic_errors, all_errors>>
          ELSE /\ outcome' = "returned"
               /\ root' = sem.root
               /\ semantic_errors' = sem.errors
               /\ all_errors' = CombineErrors(state.errors, sem.errors)
    /\ pc' = "done"
    /\ UNCHANGED <<input, source_text, lines, tokens, indent_stack, indent_unit, line_no,
                   state>>

Next == MergeLines \/ ScanNextLine \/ ScanFinish \/ ParseStatements \/ SemanticPass

Spec == Init /\ [][Next]_vars

-----------------------------------------------------------------------------
(* Properties of the pipeline                                              *)

\* the phases that follow the return of scan_source
Scanned == pc \in {"parse", "semantic", "done"}

\* the phase that follows the return of parse, when it returns
Returned == pc = "done" /\ outcome = "returned"

\* the positions of the tokens of a type
PositionsOf(toks, ttype) == {k \in DOMAIN toks : toks[k].type = ttype}

\* a tree without line numbers and inferred types
RECURSIVE Shape(_)
Shape(node) ==
    [type |-> node.type, value |-> node.value,
     children |-> [k \in DOMAIN node.children |-> Shape(node.children[k])]]

\* the tree of a number literal, and of a binary operation on two trees
NumberShape(lit) == [type |-> "Number", value |-> <<lit>>, children |-> <<>>]
BinaryShape(op, l, r) == [type |-> "BinaryOp", value |-> <<op>>, children |-> <<l, r>>]

\* the right-hand side of the k-th statement, an assignment
RightHandSide(k) == root.children[k].children[1]

\* the program is one assignment to x
OneAssignment ==
    /\ Len(root.children) = 1
    /\ root.children[1].type = "Assignment"
    /\ root.children[1].value = <<"x">>
    /\ Len(root.children[1].children) = 1

\* C1: scan_source returns for every input text, and the token sequence it
\* returns ends with EOF, which occurs in it exactly once
ScanEndsWithOneEOF ==
    Scanned => /\ tokens # <<>>
               /\ tokens[Len(tokens)].type = TOKEN_EOF
               /\ Cardinality(PositionsOf(tokens, TOKEN_EOF)) = 1

\* a text with a lexical error and an open block has been scanned to the end
ScanEndsWithOneEOFWitness ==
    /\ pc = "parse"
    /\ PositionsOf(tokens, TOKEN_UNKNOWN) # {}
    /\ PositionsOf(tokens, TOKEN_DEDENT) # {}
    /\ tokens[Len(tokens)].type = TOKEN_EOF

\* C2: parse never propagates an exception: whatever fails while the tree is
\* built or analysed, the caller gets a Program root back
ParseAlwaysReturns == pc = "done" => outcome = "returned" /\ root.type = "Program"

\* C3: an assignment of `a + b * c` or `a - b * c` over number literals
\* parses to BinaryOp(op, a, BinaryOp(*, b, c)) without a diagnostic
MultiplicationBindsTighter ==
    (pc = "done" /\ input.family = "prec") =>
        /\ outcome = "returned"
        /\ all_errors = <<>>
        /\ OneAssignment
        /\ Shape(RightHandSide(1))
               = BinaryShape(input.op, NumberShape(input.a),
                             BinaryShape("*", NumberShape(input.b), NumberShape(input.c)))

\* the tree of o1 ** (o2 ** (... ** on))
RECURSIVE RightNested(_)
RightNested(operands) ==
    IF Len(operands) = 1 THEN NumberShape(operands[1])
    ELSE BinaryShape("**", NumberShape(operands[1]), RightNested(Tail(operands)))

\* C4: a chain of `**` of any length parses to the right-nested tree, the
\* right operand of each node holding the rest of the chain, without a
\* diagnostic
ExponentRightAssociative ==
    (pc = "done" /\ input.family = "exp") =>
        /\ outcome = "returned"
        /\ all_errors = <<>>
        /\ OneAssignment
        /\ Shape(RightHandSide(1)) = RightNested(input.operands)

\* a chain of three or more operands has been parsed and analysed
ExponentRightAssociativeWitness ==
    /\ Returned
    /\ input.family = "exp"
    /\ Len(input.operands) >= 3
    /\ OneAssignment
    /\ RightHandSide(1).type = "BinaryOp"
    /\ RightHandSide(1).children[2].type = "BinaryOp"

\* the well-formed statements `y = 1` among the children of the root
WellFormedChildren ==
    {k \in DOMAIN root.children :
        /\ root.children[k].type = "Assignment"
        /\ root.children[k].value = <<"y">>}

\* C5: one malformed statement followed by n well-formed ones gives exactly
\* one syntax diagnostic and a Program with all n well-formed statements
PanicModeBoundsDamage ==
    (pc = "done" /\ input.family = "panic") =>
        /\ outcome = "returned"
        /\ Len(state.errors) = 1
        /\ Cardinality(WellFormedChildren) = input.n

\* the diagnostic of BinaryOp for an operator and its operands' types
TypeMismatch(op, lt, rt) ==
    "Type mismatch: cannot apply '" \o op \o "' to " \o lt \o " and " \o rt

\* C6: an operator applied to two literals of incompatible types gives
\* exactly one semantic diagnostic, which names the operator and both
\* types, and no parser diagnostic
OneTypeMismatchDiagnostic ==
    (pc = "done" /\ input.family = "mismatch") =>
        /\ outcome = "returned"
        /\ state.errors = <<>>
        /\ Len(all_errors) = 1
        /\ all_errors[1][2] = TypeMismatch(input.case.op, input.case.lt, input.case.rt)

\* the type of `a op b` for arithmetic op with a and b bound to the types
\* of the literals of a call
ReturnTypeFor(args) ==
    IF HasDot(Chars(args[1])) \/ HasDot(Chars(args[2])) THEN DATA_TYPE_DOUBLE ELSE DATA_TYPE_INT

\* C7: each call of a function returning an arithmetic combination of its
\* parameters is typed with the return type for that call's argument
\* types: integer for (integer, integer), floating-point once an argument
\* is floating-point
CallSiteReinference ==
    (pc = "done" /\ input.family = "reinfer") =>
        /\ outcome = "returned"
        /\ Len(root.children) = 3
        /\ root.children[2].type = "Assignment"
        /\ root.children[3].type = "Assignment"
        /\ RightHandSide(2).type = "Call"
        /\ RightHandSide(3).type = "Call"
        /\ RightHandSide(2).dtype = ReturnTypeFor(input.first)
        /\ RightHandSide(3).dtype = ReturnTypeFor(input.second)

\* the diagnostics that report the name y as undeclared
UndeclaredY == {k \in DOMAIN all_errors : all_errors[k][2] = "Undeclared variable 'y'"}

\* C8: a name first assigned in the then, elif or else block of an if, and
\* declared in no enclosing scope, is undeclared after the if: a statement
\* that reads it there gets an 'Undeclared variable' diagnostic
BranchScopeIsolated ==
    (pc = "done" /\ input.family = "scope") =>
        /\ outcome = "returned"
        /\ UndeclaredY # {}

\* the name was assigned in an elif block inside a loop and read after the if
BranchScopeIsolatedWitness ==
    /\ Returned
    /\ input.family = "scope"
    /\ input.arm = "elif"
    /\ input.outer = "loop"
    /\ state.errors = <<>>
    /\ Cardinality(UndeclaredY) = 1

\* the INDENT, DEDENT and NEWLINE token kinds of a token sequence, in order
Skeleton(toks) ==
    LET kept == SelectSeq(toks, LAMBDA t : t.type \in {TOKEN_INDENT, TOKEN_DEDENT, TOKEN_NEWLINE})
    IN [k \in DOMAIN kept |-> kept[k].type]

\* every line is indented by its depth times one unit, a block opens one
\* level at a time, and the first line opens at most one
SelfConsistent(depths) ==
    /\ depths[1] <= 1
    /\ \A k \in 1..(Len(depths) - 1) : depths[k + 1] <= depths[k] + 1

\* the UNKNOWN tokens the indentation tracking emits
IndentationUnknowns(toks) ==
    {k \in DOMAIN toks :
        /\ toks[k].type = TOKEN_UNKNOWN
        /\ \/ toks[k].value = MsgUnindent
           \/ \E unit \in 1..(MaxDepth * 8 + 8) : toks[k].value = MsgInconsistent(unit)}

\* C9: a program indented self-consistently with one unit, and the same
\* program indented to the same depths with any other unit, have the same
\* sequence of INDENT, DEDENT and NEWLINE kinds, and neither has an
\* indentation UNKNOWN token
IndentationRoundTrip ==
    (pc = "parse" /\ input.family = "indent" /\ SelfConsistent(input.depths)) =>
        /\ IndentationUnknowns(tokens) = {}
        /\ \A other \in UnitStrings :
               LET again == scan_source(Render(input.depths, other))
               IN /\ Skeleton(again) = Skeleton(tokens)
                  /\ IndentationUnknowns(again) = {}

\* a program that opens two nested blocks and closes them has been scanned
IndentationRoundTripWitness ==
    /\ pc = "parse"
    /\ input.family = "indent"
    /\ SelfConsistent(input.depths)
    /\ input.unit = "\t"
    /\ Cardinality(PositionsOf(tokens, TOKEN_INDENT)) = 2
    /\ Cardinality(PositionsOf(tokens, TOKEN_DEDENT)) = 2
    /\ Len(input.depths) = MaxLines

\* C10: when parse returns no diagnostics for the tokens scan_source gave,
\* no token is UNKNOWN and every token before EOF has been consumed
NoDiagnosticsMeansValid ==
    (Returned /\ all_errors = <<>>) =>
        /\ PositionsOf(tokens, TOKEN_UNKNOWN) = {}
        /\ state.i >= Len(tokens) - 1

\* a program of several statements and a block was parsed without diagnostics
NoDiagnosticsMeansValidWitness ==
    /\ Returned
    /\ all_errors = <<>>
    /\ Len(root.children) >= 3
    /\ PositionsOf(tokens, TOKEN_INDENT) # {}
    /\ state.i = Len(tokens) - 1

\* C11: in the diagnostics parse returns, the parse diagnostics come first,
\* in the order they were recorded and none missing, and the semantic
\* diagnostics follow them in the order they were recorded
ParseDiagnosticsFirst ==
    Returned =>
        /\ Len(all_errors) = Len(state.errors) + Len(semantic_errors)
        /\ SubSeq(all_errors, 1, Len(state.errors)) = state.errors
        /\ SubSeq(all_errors, Len(state.errors) + 1, Len(all_errors)) = semantic_errors

\* both passes reported, and the semantic diagnostics are about an earlier
\* line than the parse diagnostics
ParseDiagnosticsFirstWitness ==
    /\ Returned
    /\ input.family = "order"
    /\ input.first = "sem"
    /\ Len(state.errors) >= 2
    /\ Len(semantic_errors) >= 2
    /\ semantic_errors[1][1] < state.errors[1][1]
    /\ all_errors[1] = state.errors[1]

\* the tree of an identifier
IdentifierShape(name) == [type |-> "Identifier", value |-> <<name>>, children |-> <<>>]

\* the tree of the right-hand sides of CompoundInputs
OperandShape(text) ==
    CASE text = "1" -> NumberShape("1")
      [] text = "y * 2" -> BinaryShape("*", IdentifierShape("y"), NumberShape("2"))
      [] text = "2 ** 3" -> BinaryShape("**", NumberShape("2"), NumberShape("3"))

\* C12: for each compound operator the statement dispatcher accepts,
\* `x OP= expr` parses to Assignment(x, BinaryOp(OP, Identifier(x), expr)),
\* OP being the operator without its trailing `=`, with no diagnostic
CompoundAssignmentDesugars ==
    (pc = "done" /\ input.family = "compound") =>
        /\ outcome = "returned"
        /\ all_errors = <<>>
        /\ Len(root.children) = 3
        /\ Shape(root.children[3])
               = [type |-> "Assignment", value |-> <<"x">>,
                  children |-> <<BinaryShape(SubSeq(input.op, 1, Len(input.op) - 1),
                                             IdentifierShape("x"), OperandShape(input.rhs))>>]

\* the top-level statements `x = 1` of the tree
TopLevelAssignments ==
    {k \in DOMAIN root.children :
        /\ root.children[k].type = "Assignment"
        /\ root.children[k].value = <<"x">>}

\* C13: when parse returns, the cursor has reached EOF, and every
\* well-formed top-level statement after a malformed construct, an
\* unexpected indentation included, is in the tree
RestOfFileAnalysed ==
    (Returned /\ input.family = "indent" /\ input.depths[Len(input.depths)] = 0) =>
        /\ current(state).type = TOKEN_EOF
        /\ state.i = Len(tokens) - 1
        /\ \E k \in TopLevelAssignments : root.children[k].lineno = Len(input.depths)

\* the number of tokens of a type among the first n
CountIn(toks, n, ttype) == Cardinality({k \in 1..n : toks[k].type = ttype})

\* C14: while scanning, the indent stack is never empty, has 0 at the
\* bottom and increases strictly from bottom to top; the tokens returned
\* have as many DEDENTs as INDENTs, and no prefix of them has more
\* DEDENTs than INDENTs, indentation errors or not
IndentStackBalanced ==
    /\ indent_stack # <<>>
    /\ indent_stack[1] = 0
    /\ \A k \in 1..(Len(indent_stack) - 1) : indent_stack[k] < indent_stack[k + 1]
    /\ pc = "scan" =>
           CountIn(tokens, Len(tokens), TOKEN_INDENT)
               = CountIn(tokens, Len(tokens), TOKEN_DEDENT) + Len(indent_stack) - 1
    /\ Scanned =>
           /\ CountIn(tokens, Len(tokens), TOKEN_INDENT)
                  = CountIn(tokens, Len(tokens), TOKEN_DEDENT)
           /\ \A n \in 0..Len(tokens) :
                  CountIn(tokens, n, TOKEN_INDENT) >= CountIn(tokens, n, TOKEN_DEDENT)

\* a text with both kinds of indentation error has been scanned, and two
\* blocks were still open at its end
IndentStackBalancedWitness ==
    /\ pc = "parse"
    /\ \E k \in PositionsOf(tokens, TOKEN_UNKNOWN) : tokens[k].value = MsgUnindent
    /\ \E k \in PositionsOf(tokens, TOKEN_UNKNOWN) : tokens[k].value # MsgUnindent
    /\ Cardinality(PositionsOf(tokens, TOKEN_INDENT)) >= 3
    /\ tokens[Len(tokens) - 1].type = TOKEN_DEDENT
    /\ tokens[Len(tokens) - 2].type = TOKEN_DEDENT

\* the indentation width of the line about to be scanned
NextWidth == IndentLen(Take(Head(lines), MatchWS(Head(lines))))

\* the top of the indent stack
StackTop == indent_stack[Len(indent_stack)]

\* the tokens the scanner appends for the code `x = 1` of a line
LineOfCode(toks) ==
    /\ Len(toks) = 4
    /\ [k \in 1..4 |-> toks[k].type] = <<TOKEN_IDENTIFIER, TOKEN_PUNCT, TOKEN_NUMBER, TOKEN_NEWLINE>>
    /\ [k \in 1..3 |-> toks[k].value] = <<"x", "=", "1">>

\* C15: the first indentation increase fixes the indent unit; a later
\* increase that is no multiple of the unit emits one UNKNOWN
\* inconsistent-indentation token, after which the width is still pushed,
\* the INDENT still emitted and the line tokenized as usual; an increase
\* that is a multiple of the unit emits no UNKNOWN token
InconsistentIndentReported ==
    [][(pc = "scan" /\ lines # <<>> /\ input.family = "indent" /\ NextWidth > StackTop) =>
          LET increase == NextWidth - StackTop
              unit == IF indent_unit = NoUnit THEN increase ELSE indent_unit
              added == SubSeq(tokens', Len(tokens) + 1, Len(tokens'))
              unknown == make_token(TOKEN_UNKNOWN, MsgInconsistent(unit), line_no', 0)
              indent == make_token(TOKEN_INDENT, NextWidth, line_no', 0)
          IN /\ indent_unit' = unit
             /\ indent_stack' = Append(indent_stack, NextWidth)
             /\ SubSeq(tokens', 1, Len(tokens)) = tokens
             /\ IF increase % unit # 0
                THEN /\ SubSeq(added, 1, 2) = <<unknown, indent>>
                     /\ LineOfCode(SubSeq(added, 3, Len(added)))
                ELSE /\ SubSeq(added, 1, 1) = <<indent>>
                     /\ LineOfCode(SubSeq(added, 2, Len(added)))]_vars

\* an increase that is no multiple of the unit fixed earlier was reported,
\* the block was opened all the same and the line and the next were scanned
InconsistentIndentReportedWitness ==
    /\ pc = "parse"
    /\ input.family = "indent"
    /\ \E k \in PositionsOf(tokens, TOKEN_UNKNOWN) :
           /\ tokens[k].value = MsgInconsistent(indent_unit)
           /\ \E j \in PositionsOf(tokens, TOKEN_INDENT) : j < k
           /\ tokens[k + 1].type = TOKEN_INDENT
           /\ LineOfCode(SubSeq(tokens, k + 2, k + 5))
           /\ tokens[k + 6].type = TOKEN_IDENTIFIER

\* C16: on a line of width w below the stack top the scanner pops every
\* level greater than w and emits one DEDENT per pop; when w is a level of
\* the stack the top is then w and no UNKNOWN token is emitted; the UNKNOWN
\* 'unindent does not match' token is emitted exactly when w is no level of
\* the stack
DedentUnwindsToMatch ==
    [][(pc = "scan" /\ lines # <<>> /\ input.family = "indent" /\ NextWidth < StackTop) =>
          LET kept == SelectSeq(indent_stack, LAMBDA level : level <= NextWidth)
              pops == Len(indent_stack) - Len(kept)
              added == SubSeq(tokens', Len(tokens) + 1, Len(tokens'))
              matches == \E k \in DOMAIN indent_stack : indent_stack[k] = NextWidth
          IN /\ indent_stack' = kept
             /\ SubSeq(tokens', 1, Len(tokens)) = tokens
             /\ SubSeq(added, 1, pops)
                    = [k \in 1..pops |-> make_token(TOKEN_DEDENT, "", line_no', 0)]
             /\ IF matches
                THEN /\ indent_stack'[Len(indent_stack')] = NextWidth
                     /\ LineOfCode(SubSeq(added, pops + 1, Len(added)))
                ELSE /\ added[pops + 1] = make_token(TOKEN_UNKNOWN, MsgUnindent, line_no', 0)
                     /\ LineOfCode(SubSeq(added, pops + 2, Len(added)))]_vars

\* one line fell back to a width that is no level of the stack, and a later
\* line to one that is
DedentUnwindsToMatchWitness ==
    /\ pc = "parse"
    /\ input.family = "indent"
    /\ \E k \in PositionsOf(tokens, TOKEN_DEDENT) :
           /\ tokens[k + 1].type = TOKEN_UNKNOWN
           /\ tokens[k + 1].value = MsgUnindent
           /\ \E j \in PositionsOf(tokens, TOKEN_DEDENT) :
                  j > k /\ tokens[j + 1].type = TOKEN_IDENTIFIER

\* the positions of the characters + - ! ~ emitted as tokens of their own
SignPositions ==
    {k \in DOMAIN tokens :
        /\ tokens[k].type \in {TOKEN_OPERATOR, TOKEN_PUNCT}
        /\ tokens[k].value \in {"+", "-", "!", "~"}}

\* the token before position k makes a sign at k unary
UnaryContext(k) ==
    \/ k = 1
    \/ tokens[k - 1].type \in {TOKEN_OPERATOR, TOKEN_NEWLINE, TOKEN_INDENT}
    \/ tokens[k - 1].value \in {"(", "[", "{", ",", ":", "="}

\* C17: each of + - ! ~ is unary exactly when the token before it is
\* absent, an OPERATOR, NEWLINE or INDENT, or one of ( [ { , : = and
\* binary otherwise; a binary one is emitted as PUNCT, the kind the
\* parser's binary rules accept, and a unary one as OPERATOR, so that the
\* token sequence tells the two apart
SignsClassified ==
    Scanned =>
        \A k \in SignPositions :
            IF UnaryContext(k) THEN tokens[k].type = TOKEN_OPERATOR
            ELSE tokens[k].type = TOKEN_PUNCT

\* the positions of the identifier tokens with a name
NamePositions(name) ==
    {k \in PositionsOf(tokens, TOKEN_IDENTIFIER) : tokens[k].value = name}

\* C18: the line of every token is the 1-based number of the source line
\* its text begins on, also after a triple-quoted string that spans
\* several source lines, and the lines never decrease along the tokens
TokenLinesAreSourceLines ==
    (Scanned /\ input.family = "triple" /\ input.closed) =>
        /\ \A k \in 1..(Len(tokens) - 1) : tokens[k].lineno <= tokens[k + 1].lineno
        /\ {tokens[k].lineno : k \in NamePositions("a")} = 1..input.before
        /\ {tokens[k].lineno : k \in NamePositions("t")} = {input.before + 1}
        /\ {tokens[k].lineno : k \in NamePositions("u")}
               = (input.before + input.inner + 3)..(input.before + input.inner + 2 + input.after)

\* C19: an opening line without the closing delimiter is merged with the
\* lines up to the first one that holds the delimiter, and the merged text
\* gives one STRING token; without a closing delimiter all the remaining
\* lines go into a single UNKNOWN token and give no other token
MultiLineStringMerged ==
    (Scanned /\ input.family = "triple") =>
        /\ NamePositions("w") = {}
        /\ NamePositions("s") = {}
        /\ IF input.closed
           THEN /\ Cardinality(PositionsOf(tokens, TOKEN_STRING)) = 1
                /\ PositionsOf(tokens, TOKEN_UNKNOWN) = {}
                /\ Cardinality(NamePositions("u")) = input.after
           ELSE /\ Cardinality(PositionsOf(tokens, TOKEN_UNKNOWN)) = 1
                /\ PositionsOf(tokens, TOKEN_STRING) = {}
                /\ NamePositions("u") = {}

\* C20: from the diagnostic that raises the panic flag until the flag is
\* cleared no parse diagnostic is appended: the diagnostics list never
\* grows while the panic flag is set
PanicSuppressesDiagnostics == pc \in {"semantic", "done"} => state.in_panic = 0

\* the tokens that end the discarding: NEWLINE, DEDENT, EOF and the keywords
\* of the statement dispatch table
IsSyncPoint(tok) ==
    \/ tok.type \in {TOKEN_NEWLINE, TOKEN_DEDENT, TOKEN_EOF}
    \/ tok.type = TOKEN_KEYWORD /\ tok.value \in KEYWORD_PARSERS

\* the first cursor position from i on whose token ends the discarding
FirstSyncPoint(st) ==
    CHOOSE j \in st.i..Len(st.tokens) :
        /\ IsSyncPoint(current([st EXCEPT !.i = j]))
        /\ \A k \in st.i..(j - 1) : ~IsSyncPoint(current([st EXCEPT !.i = k]))

\* the parser state at cursor i of the scanned tokens, panic flag p
ParserAt(i, p) == [ParserStateInit(tokens) EXCEPT !.i = i, !.panic_mode = p]

\* C21: synchronize with the panic flag set discards tokens up to the first
\* NEWLINE (consumed), dispatch-table keyword, DEDENT or EOF (left
\* unconsumed) and clears the flag; with the flag clear it changes nothing
SynchronizeStopsAtBoundary ==
    Scanned =>
        \A i \in 0..Len(tokens) :
            /\ synchronize(ParserAt(i, FALSE)) = ParserAt(i, FALSE)
            /\ LET st == ParserAt(i, TRUE)
                   j == FirstSyncPoint(st)
                   stop == current([st EXCEPT !.i = j])
               IN synchronize(st) =
                      [st EXCEPT !.i = IF stop.type = TOKEN_NEWLINE THEN j + 1 ELSE j,
                                 !.panic_mode = FALSE]

\* C22: parse terminates: every iteration of a statement-list loop consumes
\* at least one token or ends the loop, and the top-level loop leaves the
\* cursor on EOF or a stop token (or the parser was left by an exception)
StatementLoopAdvances ==
    pc \in {"semantic", "done"} =>
        /\ state.stalls = 0
        /\ state.raised \/ AtStop(state, {TOKEN_EOF})

\* a parse of several statements, one of them faulty, that ran to EOF
StatementLoopAdvancesWitness ==
    /\ pc = "semantic"
    /\ ~state.raised
    /\ matchType(state, TOKEN_EOF)
    /\ Len(root.children) >= 2
    /\ Len(state.errors) >= 1

\* the semantic pass on the tree the parser has just built
Pass == semantic_analysis(root)

\* C23: when the semantic pass returns, the scope stack has held the global
\* scope throughout, push_scope and pop_scope were called equally often, no
\* statement returned with another stack depth than it started with, and
\* the stack is back to the global scope alone
ScopeStackBalanced ==
    (pc = "semantic" /\ ~Pass.raised) =>
        /\ Pass.locals.low >= 1
        /\ Pass.locals.pushes = Pass.locals.pops
        /\ Pass.locals.unbalanced = 0
        /\ Len(Pass.locals.scopes) = 1

\* a pass that opened and closed the scopes of several blocks
ScopeStackBalancedWitness ==
    /\ pc = "semantic"
    /\ ~Pass.raised
    /\ Pass.locals.pushes >= 2
    /\ Len(Pass.locals.scopes) = 1

RECURSIVE Descendants(_), DescendantsOfAll(_)
\* the nodes of a tree, the root first
Descendants(node) == <<node>> \o DescendantsOfAll(node.children)
DescendantsOfAll(nodes) ==
    IF nodes = <<>> THEN <<>> ELSE Descendants(Head(nodes)) \o DescendantsOfAll(Tail(nodes))

\* the assignments to name in a tree, in source order
AssignmentsTo(tree, name) ==
    SelectSeq(Descendants(tree), LAMBDA n : n.type = "Assignment" /\ n.value = <<name>>)

\* C24: an assignment inside a block to a name declared outside it writes
\* the block's scope only: reads inside the block see the new type, the
\* outer entry is unchanged, and a read after the block sees the old type
ShadowingLeavesOuter ==
    (pc = "semantic" /\ input.family = "shadow") =>
        /\ ~Pass.raised
        /\ Pass.errors = <<>>
        /\ AssignmentsTo(Pass.root, "z") # <<>>
        /\ \A k \in DOMAIN AssignmentsTo(Pass.root, "z") :
               AssignmentsTo(Pass.root, "z")[k].dtype = input.inner.type
        /\ Len(AssignmentsTo(Pass.root, "w")) = 1
        /\ AssignmentsTo(Pass.root, "w")[1].dtype = DATA_TYPE_INT
        /\ "x" \in DOMAIN Pass.locals.scopes[1]
        /\ Pass.locals.scopes[1]["x"] = [name |-> "x", dtype |-> DATA_TYPE_INT, line |-> 1]

\* the name was shadowed in the except and finally blocks of a try
ShadowingLeavesOuterWitness ==
    /\ pc = "semantic"
    /\ input.family = "shadow"
    /\ input.block = "handlers"
    /\ Len(AssignmentsTo(Pass.root, "z")) = 2
    /\ AssignmentsTo(Pass.root, "w")[1].dtype = DATA_TYPE_INT

\* the binary operations of a tree that have their two operands
BinaryOps(tree) ==
    SelectSeq(Descendants(tree), LAMBDA n : n.type = "BinaryOp" /\ Len(n.children) = 2)

\* C25: an arithmetic, comparison or logical operator with an operand of
\* type unknown gives unknown, whatever the other operand, and no diagnostic
UnknownPropagates ==
    (/\ pc = "semantic"
     /\ input.family = "ops"
     /\ "unknown" \in {input.l.type, input.r.type}) =>
        /\ datatype_check(input.l.type, input.r.type, input.op) = "unknown"
        /\ \A k \in DOMAIN BinaryOps(Pass.root) : BinaryOps(Pass.root)[k].dtype = "unknown"
        /\ Pass.errors = <<>>

\* C26: the division of two numeric operands is floating-point, the
\* division of two integers included
DivisionIsFloatingPoint ==
    (/\ pc = "semantic"
     /\ input.family = "ops"
     /\ input.op = "/"
     /\ input.l.type \in Numeric
     /\ input.r.type \in Numeric) =>
        /\ datatype_check(input.l.type, input.r.type, "/") = DATA_TYPE_DOUBLE
        /\ Len(BinaryOps(Pass.root)) = 1
        /\ BinaryOps(Pass.root)[1].dtype = DATA_TYPE_DOUBLE

\* the numeric rule of the type table: two numeric operands, floating-point
\* if either is
NumericResult(t1, t2) ==
    IF {t1, t2} \subseteq {"potion", "elixir"}
    THEN (IF "elixir" \in {t1, t2} THEN "elixir" ELSE "potion")
    ELSE NoneT

\* the type table for the primitive types and the operators other than `/`;
\* NoneT is the incompatible combination
Combine(t1, t2, op) ==
    CASE op = "+" -> IF t1 = "scroll" /\ t2 = "scroll" THEN "scroll" ELSE NumericResult(t1, t2)
      [] op = "*" -> IF {t1, t2} = {"scroll", "potion"} THEN "scroll" ELSE NumericResult(t1, t2)
      [] op \in {"-", "//", "%", "**"} -> NumericResult(t1, t2)
      [] op \in {"<", ">", "<=", ">="} ->
            IF {t1, t2} \subseteq {"potion", "elixir"} THEN "fate" ELSE NoneT
      [] op \in {"==", "!="} -> IF t1 = t2 THEN "fate" ELSE NoneT
      [] op \in {"and", "or"} -> IF t1 = "fate" /\ t2 = "fate" THEN "fate" ELSE NoneT

\* C27: for operands of the four primitive types and every operator other
\* than `/`, datatype_check gives the type of the type table, the same
\* with the operands exchanged, and the operation's node carries that type
TypeTableAgrees ==
    (/\ pc = "semantic"
     /\ input.family = "ops"
     /\ input.op # "/"
     /\ input.l.type \in CastTypes
     /\ input.r.type \in CastTypes) =>
        /\ datatype_check(input.l.type, input.r.type, input.op)
               = Combine(input.l.type, input.r.type, input.op)
        /\ datatype_check(input.r.type, input.l.type, input.op)
               = datatype_check(input.l.type, input.r.type, input.op)
        /\ \A k \in DOMAIN BinaryOps(Pass.root) :
               BinaryOps(Pass.root)[k].dtype = Combine(input.l.type, input.r.type, input.op)

\* a string repeated: integer * string, typed string in the tree
TypeTableAgreesWitness ==
    /\ pc = "semantic"
    /\ input.family = "ops"
    /\ input.op = "*"
    /\ input.l.type = "potion"
    /\ input.r.type = "scroll"
    /\ Len(BinaryOps(Pass.root)) = 1
    /\ BinaryOps(Pass.root)[1].dtype = "scroll"

\* C28: the return type recorded for a function is the type of the first
\* return statement of its body in source order, those inside nested blocks
\* included, and later ones do not replace it; the parameters are of type
\* unknown inside the body and are not declared once the definition ends
ReturnTypeSeeded ==
    (pc = "semantic" /\ input.family = "returns") =>
        /\ ~Pass.raised
        /\ "f" \in DOMAIN Pass.locals.function_return_types
        /\ Pass.locals.function_return_types["f"] = input.first.type
        /\ AssignmentsTo(Pass.root, "x")[1].dtype = input.first.type
        /\ AssignmentsTo(Pass.root, "z")[1].dtype = "unknown"
        /\ Len(Pass.locals.scopes) = 1
        /\ "a" \notin DOMAIN Pass.locals.scopes[1]
        /\ AssignmentsTo(Pass.root, "y")[1].dtype = NoneT

\* C29: when the semantic pass completes, every Number, String and Literal
\* node of the tree and every cast Call node carries one of the four
\* primitive types
LiteralsAndCastsTagged ==
    (pc = "semantic" /\ ~Pass.raised) =>
        \A k \in DOMAIN Descendants(Pass.root) :
            LET n == Descendants(Pass.root)[k]
            IN (\/ n.type \in {"Number", "String", "Literal"}
                \/ /\ n.type = "Call"
                   /\ n.children # <<>>
                   /\ n.children[1].type = "Identifier"
                   /\ n.children[1].value[1] \in CastTypes)
                   => n.dtype \in CastTypes

\* the 'Cannot determine type' diagnostics of the pass for the target name
CannotDetermine(name) ==
    {k \in DOMAIN Pass.errors :
        Pass.errors[k][2] = "Cannot determine type for assignment to '" \o name \o "'"}

\* C30: an assignment whose right-hand side cannot be typed records exactly
\* one 'Cannot determine type' diagnostic, leaves the symbol table as it
\* was (the target is neither declared nor retyped), leaves the Assignment
\* node without a type, and the statements after it are analysed
FailedAssignmentChangesNothing ==
    (pc = "semantic" /\ input.family = "failed") =>
        LET xs == AssignmentsTo(Pass.root, "x")
            global == Pass.locals.scopes[1]
        IN /\ ~Pass.raised
           /\ Cardinality(CannotDetermine("x")) = 1
           /\ Len(xs) = (IF input.declared THEN 2 ELSE 1)
           /\ xs[Len(xs)].dtype = NoneT
           /\ IF input.declared
              THEN /\ "x" \in DOMAIN global
                   /\ global["x"] = [name |-> "x", dtype |-> DATA_TYPE_INT, line |-> 1]
                   /\ AssignmentsTo(Pass.root, "w")[1].dtype = DATA_TYPE_INT
              ELSE /\ "x" \notin DOMAIN global
                   /\ AssignmentsTo(Pass.root, "w")[1].dtype = NoneT
           /\ AssignmentsTo(Pass.root, "z")[1].dtype = DATA_TYPE_DOUBLE
           /\ "z" \in DOMAIN global

\* the failed assignment was to a name already declared, its right-hand
\* side an incompatible operation
FailedAssignmentChangesNothingWitness ==
    /\ pc = "semantic"
    /\ input.family = "failed"
    /\ input.declared
    /\ input.rhs = "\"s\" * true"
    /\ Cardinality(CannotDetermine("x")) = 1
    /\ Len(Pass.errors) = 2
    /\ Pass.locals.scopes[1]["x"].dtype = DATA_TYPE_INT

====
